---------------------------- MODULE Spec2Model ----------------------------
(***************************************************************************)
(* A model of the macro engine's camera pipeline and playback scheduler    *)
(* (src/macro_engine/camera.py, playback.py, io.py, events.py).            *)
(*                                                                         *)
(* Representation of the program's numbers:                                *)
(*   - time is counted in units of the code's 1e-6 s tolerance (Eps), so   *)
(*     one second is TicksPerSecond units;                                 *)
(*   - float angles (degrees) and float counts are fixed-point numbers     *)
(*     with Scale units per degree / per count; a float operation whose    *)
(*     exact result is off the grid is rounded down to the grid;           *)
(*   - integer steps sent to the injection sink are plain integers.        *)
(***************************************************************************)
EXTENDS Integers, Sequences, FiniteSets, TLC

\* ------------------------------------------------------------------------
\* Bounds of the model
\* ------------------------------------------------------------------------
MaxSamples == 2      \* samples per segment drawn by the trajectory specification
MaxFeeds   == 3      \* feed calls per accumulator run

\* ------------------------------------------------------------------------
\* Number representation
\* ------------------------------------------------------------------------
Eps            == 1          \* the 1e-6 s tolerance, the unit of time
TicksPerSecond == 1000000    \* 1 s in units of Eps
Scale          == 10         \* fixed-point units per degree and per count

\* an Optional value: None, or Some(v) holding v
None == <<>>
Some(v) == <<v>>
Get(o) == o[1]

Abs(v) == IF v < 0 THEN -v ELSE v
Max(a, b) == IF a > b THEN a ELSE b
Min(a, b) == IF a < b THEN a ELSE b
Sign(v) == IF v < 0 THEN -1 ELSE 1          \* math.copysign(1.0, v), v never -0.0

\* camera.py _clamp
Clamp(value, minimum, maximum) == Max(minimum, Min(maximum, value))

\* Python's round(): to the nearest integer, a tie to the even one.
\* v is a fixed-point number; the result is an integer.
PyRound(v) ==
    LET q == v \div Scale
        r == v - q * Scale
    IN  IF 2 * r < Scale THEN q
        ELSE IF 2 * r > Scale THEN q + 1
        ELSE IF q % 2 = 0 THEN q ELSE q + 1

RECURSIVE SumSeq(_)
SumSeq(s) == IF s = <<>> THEN 0 ELSE Head(s) + SumSeq(Tail(s))

SeqMap(Op(_), s) == [i \in 1..Len(s) |-> Op(s[i])]

Last(s) == s[Len(s)]

\* ------------------------------------------------------------------------
\* events.py: CameraSample, CameraSegment
\* ------------------------------------------------------------------------
CameraSample(ts, adx, ady, rdx, rdy) ==
    [timestamp |-> ts, angle_dx |-> adx, angle_dy |-> ady, raw_dx |-> rdx, raw_dy |-> rdy]

CameraSegment(pi, ri, pts, rts, samples) ==
    [press_event_index |-> pi, release_event_index |-> ri,
     press_timestamp |-> pts, release_timestamp |-> rts, samples |-> samples]

\* CameraSegment.sum_angles
SumAngles(segment) ==
    <<SumSeq(SeqMap(LAMBDA s : s.angle_dx, segment.samples)),
      SumSeq(SeqMap(LAMBDA s : s.angle_dy, segment.samples))>>

\* ------------------------------------------------------------------------
\* camera.py: CumulativeSeries
\* ------------------------------------------------------------------------
\* sorted(samples, key=timestamp): a stable sort (insertion of each sample
\* after the samples whose timestamp is not greater).
RECURSIVE InsertByTimestamp(_, _)
InsertByTimestamp(sorted, sample) ==
    IF sorted = <<>> THEN <<sample>>
    ELSE IF Last(sorted).timestamp <= sample.timestamp THEN Append(sorted, sample)
    ELSE Append(InsertByTimestamp(SubSeq(sorted, 1, Len(sorted) - 1), sample), Last(sorted))

RECURSIVE SortByTimestamp(_)
SortByTimestamp(samples) ==
    IF samples = <<>> THEN <<>>
    ELSE InsertByTimestamp(SortByTimestamp(SubSeq(samples, 1, Len(samples) - 1)), Last(samples))

RECURSIVE SeriesLoop(_, _, _, _)
SeriesLoop(series, ordered, start, end) ==
    IF ordered = <<>> THEN series
    ELSE LET sample == Head(ordered)
         IN  SeriesLoop([times |-> Append(series.times, Clamp(sample.timestamp, start, end)),
                         cum_x |-> Append(series.cum_x, Last(series.cum_x) + sample.angle_dx),
                         cum_y |-> Append(series.cum_y, Last(series.cum_y) + sample.angle_dy)],
                        Tail(ordered), start, end)

\* CumulativeSeries where the series is not extended to end
CumulativeSeries_NotExtended(start, end, samples) ==
    SeriesLoop([times |-> <<start>>, cum_x |-> <<0>>, cum_y |-> <<0>>],
               SortByTimestamp(samples), start, end)

CumulativeSeries(start, end, samples) ==
    LET body == SeriesLoop([times |-> <<start>>, cum_x |-> <<0>>, cum_y |-> <<0>>],
                           SortByTimestamp(samples), start, end)
    IN  IF Last(body.times) < end
        THEN [times |-> Append(body.times, end),
              cum_x |-> Append(body.cum_x, Last(body.cum_x)),
              cum_y |-> Append(body.cum_y, Last(body.cum_y))]
        ELSE body

\* bisect.bisect_right on a sorted list: the number of entries <= x
BisectRight(times, x) == Cardinality({i \in 1..Len(times) : times[i] <= x})

\* CumulativeSeries.value_at (sequences are 1-based: idx is the code's idx + 1)
ValueAt(series, timestamp) ==
    IF timestamp <= series.times[1] THEN <<0, 0>>
    ELSE IF timestamp >= Last(series.times) THEN <<Last(series.cum_x), Last(series.cum_y)>>
    ELSE LET idx        == Max(1, Min(BisectRight(series.times, timestamp), Len(series.times) - 1))
             left_time  == series.times[idx]
             right_time == series.times[idx + 1]
         IN  IF right_time <= left_time THEN <<series.cum_x[idx], series.cum_y[idx]>>
             ELSE <<series.cum_x[idx]
                      + ((series.cum_x[idx + 1] - series.cum_x[idx]) * (timestamp - left_time))
                            \div (right_time - left_time),
                    series.cum_y[idx]
                      + ((series.cum_y[idx + 1] - series.cum_y[idx]) * (timestamp - left_time))
                            \div (right_time - left_time)>>

TotalVector(series) == <<Last(series.cum_x), Last(series.cum_y)>>

\* ------------------------------------------------------------------------
\* camera.py: CameraTrajectory
\* ------------------------------------------------------------------------
CameraTrajectory(segment, calibration) ==
    [segment |-> segment, calibration |-> calibration,
     series |-> CumulativeSeries(segment.press_timestamp, segment.release_timestamp, segment.samples),
     duration |-> Max(0, segment.release_timestamp - segment.press_timestamp)]

\* step = 1.0 / max(1.0, float(target_rate_hz)), in time units
StepOf(target_rate_hz) == TicksPerSecond \div Max(1, target_rate_hz)

\* the while loop of resample with "while t <= release"
RECURSIVE TickLoop_UpToRelease(_, _, _, _)
TickLoop_UpToRelease(t, step, release, timestamps) ==
    IF t <= release THEN TickLoop_UpToRelease(t + step, step, release, Append(timestamps, t))
    ELSE timestamps

\* the while loop of resample: t, t + step, ... while t < release - 1e-6
RECURSIVE TickLoop(_, _, _, _)
TickLoop(t, step, release, timestamps) ==
    IF t < release - Eps THEN TickLoop(t + step, step, release, Append(timestamps, t))
    ELSE timestamps

\* ResampleTimestamps where the final tick at the release is left out
ResampleTimestamps_NoReleaseTick(segment, step) ==
    TickLoop(segment.press_timestamp + step, step, segment.release_timestamp, <<>>)

ResampleTimestamps(segment, step) ==
    Append(TickLoop(segment.press_timestamp + step, step, segment.release_timestamp, <<>>),
           segment.release_timestamp)

RECURSIVE ResampleLoop(_, _, _, _, _)
ResampleLoop(trajectory, timestamps, prev_x, prev_y, output) ==
    IF timestamps = <<>> THEN output
    ELSE LET timestamp == Head(timestamps)
             cum       == ValueAt(trajectory.series, timestamp)
             delta_x   == cum[1] - prev_x
             delta_y   == cum[2] - prev_y
         IN  ResampleLoop(trajectory, Tail(timestamps), cum[1], cum[2],
                 Append(output,
                        CameraSample(timestamp, delta_x, delta_y,
                                     delta_x * trajectory.calibration.counts_per_degree_x,
                                     delta_y * trajectory.calibration.counts_per_degree_y)))

Resample(trajectory, target_rate_hz) ==
    IF trajectory.segment.samples = <<>> \/ trajectory.duration <= 0 THEN <<>>
    ELSE ResampleLoop(trajectory,
                      ResampleTimestamps(trajectory.segment, StepOf(target_rate_hz)),
                      0, 0, <<>>)


\* CameraTrajectory.compare_with; hypot errors are kept as their squares
SqErr(a, b) == (a[1] - b[1]) * (a[1] - b[1]) + (a[2] - b[2]) * (a[2] - b[2])

SetMax(S) == CHOOSE m \in S : \A v \in S : v <= m

\* compare_with where the playback series runs over relative time, from 0 to
\* the duration
CompareWith_RelativeTime(trajectory, playback_samples) ==
    LET playback_series == CumulativeSeries(0, trajectory.duration, playback_samples)
        checkpoints == {trajectory.series.times[i] : i \in 1..Len(trajectory.series.times)}
                       \cup {playback_series.times[i] : i \in 1..Len(playback_series.times)}
        errors == {SqErr(ValueAt(trajectory.series, c), ValueAt(playback_series, c)) : c \in checkpoints}
    IN  [max_error_sq   |-> SetMax(errors),
         final_error_sq |-> SqErr(TotalVector(trajectory.series), TotalVector(playback_series))]

CompareWith(trajectory, playback_samples) ==
    LET playback_series == CumulativeSeries(trajectory.segment.press_timestamp,
                                            trajectory.segment.release_timestamp, playback_samples)
        checkpoints == {trajectory.series.times[i] : i \in 1..Len(trajectory.series.times)}
                       \cup {playback_series.times[i] : i \in 1..Len(playback_series.times)}
        errors == {SqErr(ValueAt(trajectory.series, c), ValueAt(playback_series, c)) : c \in checkpoints}
    IN  [max_error_sq   |-> SetMax(errors),
         final_error_sq |-> SqErr(TotalVector(trajectory.series), TotalVector(playback_series))]

\* ------------------------------------------------------------------------
\* config.py: MacroSettings, CameraCalibrationProfile (the fields playback reads)
\* ------------------------------------------------------------------------
MacroSettings(rate, max_step, deadzone, window_ms, tiny_ratio, inv_x, inv_y) ==
    [camera_gain |-> 1, gain_x |-> 1, gain_y |-> 1,
     invert_x |-> inv_x, invert_y |-> inv_y,
     target_rate_hz |-> rate, sender_max_step |-> max_step,
     sender_delay_ms |-> 15,                 \* 1.5 ms, fixed-point
     deadzone_threshold |-> deadzone,        \* counts, fixed-point
     reverse_window_ms |-> window_ms,
     reverse_tiny_ratio |-> tiny_ratio,      \* fixed-point
     strict_mode |-> FALSE]

CameraCalibrationProfile(cx, cy) == [counts_per_degree_x |-> cx, counts_per_degree_y |-> cy]

\* ------------------------------------------------------------------------
\* camera.py: CameraModel
\* ------------------------------------------------------------------------
CameraModel(calibration, settings) == [calibration |-> calibration, settings |-> settings]

GainX(model) == model.settings.camera_gain * model.settings.gain_x
GainY(model) == model.settings.camera_gain * model.settings.gain_y

\* counts (fixed-point) -> angles (fixed-point)
CountsToAngles(model, dx, dy, apply_gain) ==
    LET ax0 == dx \div model.calibration.counts_per_degree_x
        ay0 == dy \div model.calibration.counts_per_degree_y
        ax1 == IF apply_gain THEN ax0 * GainX(model) ELSE ax0
        ay1 == IF apply_gain THEN ay0 * GainY(model) ELSE ay0
    IN  <<IF model.settings.invert_x THEN -ax1 ELSE ax1,
          IF model.settings.invert_y THEN -ay1 ELSE ay1>>

\* AnglesToCounts where the gain is left out
AnglesToCounts_NoGain(model, angle_dx, angle_dy, include_gain) ==
    LET dx1 == IF model.settings.invert_x THEN -angle_dx ELSE angle_dx
        dy1 == IF model.settings.invert_y THEN -angle_dy ELSE angle_dy
    IN  <<dx1 * model.calibration.counts_per_degree_x,
          dy1 * model.calibration.counts_per_degree_y>>

\* angles (fixed-point) -> counts (fixed-point)
AnglesToCounts(model, angle_dx, angle_dy, include_gain) ==
    LET dx0 == IF include_gain THEN angle_dx * GainX(model) ELSE angle_dx
        dy0 == IF include_gain THEN angle_dy * GainY(model) ELSE angle_dy
        dx1 == IF model.settings.invert_x THEN -dx0 ELSE dx0
        dy1 == IF model.settings.invert_y THEN -dy0 ELSE dy0
    IN  <<dx1 * model.calibration.counts_per_degree_x,
          dy1 * model.calibration.counts_per_degree_y>>

\* ------------------------------------------------------------------------
\* camera.py: MotionFilter.  hypot comparisons are made on the squares.
\* ------------------------------------------------------------------------
MotionFilter(settings, calibration) ==
    [deadzone_counts |-> settings.deadzone_threshold,         \* deadzone_deg * counts_per_degree_x
     cpd_x |-> calibration.counts_per_degree_x,
     reverse_window |-> (settings.reverse_window_ms * TicksPerSecond) \div 1000,
     reverse_tiny_ratio |-> settings.reverse_tiny_ratio,
     history |-> <<>>]

MagSq(dx, dy) == dx * dx + dy * dy

\* BelowDeadzone with magnitude <= deadzone_deg
BelowDeadzone_Inclusive(filter, dx, dy) ==
    /\ filter.deadzone_counts > 0
    /\ MagSq(dx, dy) * filter.cpd_x * filter.cpd_x <= filter.deadzone_counts * filter.deadzone_counts

\* magnitude < deadzone_deg, where deadzone_deg = deadzone_threshold / counts_per_degree_x
\* (0.0 when the threshold is 0)
BelowDeadzone(filter, dx, dy) ==
    /\ filter.deadzone_counts > 0
    /\ MagSq(dx, dy) * filter.cpd_x * filter.cpd_x < filter.deadzone_counts * filter.deadzone_counts

\* Evict where nothing is popped from the history
Evict_KeepsAll(history, timestamp, window) == history

\* while self._history and timestamp - self._history[0][0] > self.reverse_window: popleft()
RECURSIVE Evict(_, _, _)
Evict(history, timestamp, window) ==
    IF history # <<>> /\ timestamp - Head(history)[1] > window
    THEN Evict(Tail(history), timestamp, window)
    ELSE history

Accept(filter, dx, dy, timestamp) ==
    [out |-> <<dx, dy>>,
     filter |-> [filter EXCEPT !.history =
                    Evict(Append(filter.history, <<timestamp, dx, dy>>), timestamp, filter.reverse_window)]]

\* MotionFilter.apply: the returned pair and the filter afterwards
FilterApply(filter, dx, dy, timestamp) ==
    IF BelowDeadzone(filter, dx, dy) THEN [out |-> <<0, 0>>, filter |-> filter]
    ELSE IF filter.history = <<>>
         THEN [out |-> <<dx, dy>>,
               filter |-> [filter EXCEPT !.history = <<<<timestamp, dx, dy>>>>]]
    ELSE LET last     == Last(filter.history)
             ratio    == Max(0, filter.reverse_tiny_ratio)
             tiny     == /\ timestamp - last[1] <= filter.reverse_window
                         /\ MagSq(last[2], last[3]) > 0
                         /\ MagSq(dx, dy) * Scale * Scale < MagSq(last[2], last[3]) * ratio * ratio
             reversed_x == dx # 0 /\ Sign(dx) # Sign(last[2])
             reversed_y == dy # 0 /\ Sign(dy) # Sign(last[3])
         IN  IF tiny /\ (reversed_x \/ reversed_y) THEN [out |-> <<0, 0>>, filter |-> filter]
             ELSE Accept(filter, dx, dy, timestamp)

\* ------------------------------------------------------------------------
\* camera.py: SubPixelAccumulator.  Buffers are fixed-point counts.
\* ------------------------------------------------------------------------
SubPixelAccumulator(max_step) == [max_step |-> Max(1, max_step), buffer_x |-> 0, buffer_y |-> 0]

\* SendOf where the magnitude is int(abs(buffer)), not limited by max_step
SendOf_Unlimited(buffer, max_step) ==
    IF Abs(buffer) >= Scale
    THEN IF buffer > 0 THEN Abs(buffer) \div Scale ELSE -(Abs(buffer) \div Scale)
    ELSE 0

\* one axis of one loop iteration: the integer step to send (0 when |buffer| < 1.0)
SendOf(buffer, max_step) ==
    IF Abs(buffer) >= Scale
    THEN LET m0 == Min(max_step, Abs(buffer) \div Scale)
             magnitude == IF m0 = 0 THEN 1 ELSE m0
         IN  IF buffer > 0 THEN magnitude ELSE -magnitude
    ELSE 0

RECURSIVE FeedLoop(_, _)
FeedLoop(acc, emitted) ==
    LET send_x == SendOf(acc.buffer_x, acc.max_step)
        send_y == SendOf(acc.buffer_y, acc.max_step)
    IN  IF send_x = 0 /\ send_y = 0 THEN [emitted |-> emitted, acc |-> acc]
        ELSE FeedLoop([acc EXCEPT !.buffer_x = @ - send_x * Scale, !.buffer_y = @ - send_y * Scale],
                      Append(emitted, <<send_x, send_y>>))

\* Feed where the fraction left after the emitted steps is dropped
Feed_DropsFraction(acc, counts_x, counts_y) ==
    LET fed == FeedLoop([acc EXCEPT !.buffer_x = @ + counts_x, !.buffer_y = @ + counts_y], <<>>)
    IN  [emitted |-> fed.emitted, acc |-> [fed.acc EXCEPT !.buffer_x = 0, !.buffer_y = 0]]

\* SubPixelAccumulator.feed: the emitted steps and the accumulator afterwards
Feed(acc, counts_x, counts_y) ==
    FeedLoop([acc EXCEPT !.buffer_x = @ + counts_x, !.buffer_y = @ + counts_y], <<>>)

\* SubPixelAccumulator.flush
Flush(acc) ==
    LET remainder_x == PyRound(acc.buffer_x)
        remainder_y == PyRound(acc.buffer_y)
    IN  IF (acc.buffer_x # 0 \/ acc.buffer_y # 0) /\ (remainder_x # 0 \/ remainder_y # 0)
        THEN [emitted |-> <<<<remainder_x, remainder_y>>>>,
              acc |-> [acc EXCEPT !.buffer_x = @ - remainder_x * Scale,
                                  !.buffer_y = @ - remainder_y * Scale]]
        ELSE [emitted |-> <<>>, acc |-> acc]

StepsSumX(steps) == SumSeq(SeqMap(LAMBDA st : st[1], steps))
StepsSumY(steps) == SumSeq(SeqMap(LAMBDA st : st[2], steps))

\* ------------------------------------------------------------------------
\* playback.py: _SampleAction, CameraPlaybackRunner.__init__ / _prepare_actions
\* ------------------------------------------------------------------------
\* the diagnostic sample of one action: the angle equivalent of its integer steps
DiagSample(model, timestamp, steps) ==
    LET sum_x == StepsSumX(steps)
        sum_y == StepsSumY(steps)
        angle == CountsToAngles(model, sum_x * Scale, sum_y * Scale, FALSE)
    IN  CameraSample(timestamp, angle[1], angle[2], sum_x * Scale, sum_y * Scale)

SampleAction(model, timestamp, steps) ==
    [timestamp |-> timestamp, steps |-> steps, diagnostic_sample |-> DiagSample(model, timestamp, steps)]

RECURSIVE PrepareLoop(_, _, _, _, _)
PrepareLoop(model, resampled, filter, accumulator, actions) ==
    IF resampled = <<>> THEN [actions |-> actions, filter |-> filter, accumulator |-> accumulator]
    ELSE LET sample   == Head(resampled)
             filtered == FilterApply(filter, sample.angle_dx, sample.angle_dy, sample.timestamp)
         IN  IF filtered.out = <<0, 0>>
             THEN PrepareLoop(model, Tail(resampled), filtered.filter, accumulator, actions)
             ELSE LET counts == AnglesToCounts(model, filtered.out[1], filtered.out[2], TRUE)
                      fed    == Feed(accumulator, counts[1], counts[2])
                  IN  PrepareLoop(model, Tail(resampled), filtered.filter, fed.acc,
                                  IF fed.emitted = <<>> THEN actions
                                  ELSE Append(actions, SampleAction(model, sample.timestamp, fed.emitted)))

\* _prepare_actions: the timeline, and the runner's filter as the loop leaves it
PrepareActions(segment, settings, calibration) ==
    LET model    == CameraModel(calibration, settings)
        body     == PrepareLoop(model,
                                Resample(CameraTrajectory(segment, calibration), settings.target_rate_hz),
                                MotionFilter(settings, calibration),
                                SubPixelAccumulator(settings.sender_max_step), <<>>)
        flushed  == Flush(body.accumulator)
    IN  [actions |-> IF flushed.emitted # <<>>
                     THEN Append(body.actions,
                                 SampleAction(model, segment.release_timestamp, flushed.emitted))
                     ELSE body.actions,
         filter  |-> body.filter]

\* CameraPlaybackRunner where the timeline is prepared with the runner's
\* index in the place of the step cap
CameraPlaybackRunner_IndexAsMaxStep(segment, settings, calibration, index) ==
    LET prepared == PrepareActions(segment, [settings EXCEPT !.sender_max_step = index], calibration)
    IN  [segment      |-> segment,
         settings     |-> settings,
         calibration  |-> calibration,
         index        |-> index,
         filter       |-> prepared.filter,
         actions      |-> prepared.actions,
         cursor       |-> 0,
         diag_samples |-> SeqMap(LAMBDA a : a.diagnostic_sample, prepared.actions),
         completed    |-> FALSE]

\* CameraPlaybackRunner.__init__ (the sender is the session's sink, see the variable sink)
CameraPlaybackRunner(segment, settings, calibration, index) ==
    LET prepared == PrepareActions(segment, settings, calibration)
    IN  [segment      |-> segment,
         settings     |-> settings,
         calibration  |-> calibration,
         index        |-> index,
         filter       |-> prepared.filter,
         actions      |-> prepared.actions,
         cursor       |-> 0,
         diag_samples |-> SeqMap(LAMBDA a : a.diagnostic_sample, prepared.actions),
         completed    |-> FALSE]

\* camera.py summarize_playback, with the index finalize() then stores
SummarizePlayback(segment, playback_samples, calibration, index) ==
    LET trajectory == CameraTrajectory(segment, calibration)
        comparison == CompareWith(trajectory, playback_samples)
    IN  [segment_index    |-> index,
         recorded_sum_deg |-> TotalVector(trajectory.series),
         playback_sum_deg |-> TotalVector(CumulativeSeries(segment.press_timestamp,
                                                           segment.release_timestamp, playback_samples)),
         max_error_sq     |-> comparison.max_error_sq,
         final_error_sq   |-> comparison.final_error_sq,
         sent_samples     |-> Len(playback_samples)]

\* ========================================================================
\* State
\* ========================================================================
VARIABLES
    \* trajectory specification: one segment, one resample call, one compare_with call
    tr_segment, tr_rate, tr_resampled, tr_compared,
    \* accumulator specification: one SubPixelAccumulator, its calls and their results
    ac_acc, ac_feeds, ac_emitted, ac_flushed,
    \* runner specification: runners constructed from one segment
    rn_segment, rn_settings, rn_runners,
    \* playback specification: PlaybackSession.play
    recording,        \* the MacroRecording being played
    stop_event,       \* the cancellation flag (threading.Event), set by another thread
    pc,               \* position of the playing thread
    idx,              \* index (0-based) of the event of the current loop iteration
    active_runner,    \* Optional[CameraPlaybackRunner]
    drain,            \* the running drain_until call: target, caller, position in action.steps
    diag_objects,     \* diagnostics collected so far
    position,         \* mouse_controller.position
    now, base,        \* time.perf_counter() and TimelineController._base
    result,           \* Optional[PlaybackResult]
    dispatch_log,     \* history: what each _dispatch_event call did
    sink,             \* history: the steps sender.send received
    h_runs,           \* history: runners started, runners finalized, whether a check found the flag set
    \* storage: the recording file MacroStorage.load reads
    st_file,
    \* recorder specification: one RecordingSession between start() and stop()
    rc_raw,           \* whether a RawMouseStream feeds the session
    rc_events,        \* _events
    rc_segments,      \* _segments
    rc_state,         \* _segment_state: Optional[_CameraSegmentState]
    rc_rmb,           \* _rmb_pressed
    rc_last_pos,      \* _last_mouse_pos
    rc_queue,         \* RawMouseStream.queue
    rc_consumer,      \* position of the _consume_raw_stream thread and the packet it holds
    rc_clock,         \* time.perf_counter() - _perf_zero
    rc_running,       \* _running
    rc_returned,      \* Optional[MacroRecording]: what stop() returned
    rc_arrived,       \* the raw packets produced while the right button was held
    \* filter specification: one MotionFilter and its apply calls
    mf_settings, mf_calibration, mf_filter, mf_calls,
    \* settings specification: one MacroSettings.from_dict call
    cf_data, cf_result,
    \* repository specification: one SettingsRepository and the file it loads
    rp_file,          \* Optional: the parsed settings file (None: no file, or no JSON in it)
    rp_bundle,        \* _bundle: the calibrations by name and the active name
    rp_pc,            \* "init" before load(), "ready" after it, "raised" when it raised
    rp_upserts,       \* history: the upsert_calibration calls, [calibration, raised]
    rp_last_call,     \* Optional: the latest update_settings or set_active_calibration call
    \* camera model specification: one CameraModel and its conversions
    cm_model, cm_calls,
    \* sender specification: one RelativeMouseSender and its send calls
    sn_max_step, sn_calls,
    \* timeline specification: one TimelineController and its caller
    tl_base,          \* _base: Optional
    tl_clock,         \* time.perf_counter()
    tl_pc,            \* position of the caller: "idle", "loop", "returned"
    tl_target,        \* target of the running sleep_until call
    tl_calls,         \* history: [timestamp, base, returned_at] of the finished calls
    \* runner-calls specification: drain_until and finalize calls on one runner
    dr_segment,       \* the CameraSegment object the runner was constructed from
    dr_settings,      \* the MacroSettings of the runner
    dr_runner,        \* Optional[CameraPlaybackRunner]
    dr_call,          \* the call in progress: position, arguments, stop flag, steps sent
    dr_sent,          \* history: [action, step] of every sender.send call
    dr_returns,       \* history: the finished calls and what they returned
    \* controller specification: one MacroEngineController and its worker threads
    ct_mode,          \* mode: "idle", "recording", "playback"
    ct_recorder,      \* recorder: Optional index into ct_sessions
    ct_sessions,      \* the RecordingSession objects created: [running, mode_at_start]
    ct_stop_event,    \* playback_stop_event: Optional index into ct_events
    ct_events,        \* the threading.Event objects created: whether each is set
    ct_workers        \* the worker threads started: [kind, pc, ...]

tr_vars == <<tr_segment, tr_rate, tr_resampled, tr_compared>>
ac_vars == <<ac_acc, ac_feeds, ac_emitted, ac_flushed>>
rn_vars == <<rn_segment, rn_settings, rn_runners>>
pb_vars == <<recording, stop_event, pc, idx, active_runner, drain, diag_objects, position,
             now, base, result, dispatch_log, sink, h_runs>>
st_vars == <<st_file>>
rc_vars == <<rc_raw, rc_events, rc_segments, rc_state, rc_rmb, rc_last_pos, rc_queue, rc_consumer,
             rc_clock, rc_running, rc_returned, rc_arrived>>
mf_vars == <<mf_settings, mf_calibration, mf_filter, mf_calls>>
cf_vars == <<cf_data, cf_result>>
rp_vars == <<rp_file, rp_bundle, rp_pc, rp_upserts, rp_last_call>>
cm_vars == <<cm_model, cm_calls>>
sn_vars == <<sn_max_step, sn_calls>>
tl_vars == <<tl_base, tl_clock, tl_pc, tl_target, tl_calls>>
dr_vars == <<dr_segment, dr_settings, dr_runner, dr_call, dr_sent, dr_returns>>
ct_vars == <<ct_mode, ct_recorder, ct_sessions, ct_stop_event, ct_events, ct_workers>>
fin_vars == <<dr_vars, ct_vars>>
ext_vars == <<rp_vars, cm_vars, sn_vars, tl_vars, fin_vars>>
aux_vars == <<st_vars, rc_vars, mf_vars, cf_vars, ext_vars>>
vars == <<tr_vars, ac_vars, rn_vars, pb_vars, aux_vars>>

SeqsUpTo(S, n) == UNION {[1..k -> S] : k \in 0..n}

DefaultCalibration == CameraCalibrationProfile(10, 10)

\* ------------------------------------------------------------------------
\* Trajectory specification: CameraTrajectory.resample on drawn segments
\* ------------------------------------------------------------------------
TrPress == 1000
TrReleases == {500, 1000, 3000, 4000, 9000}  \* before the press, at the press (no duration) and after it
TrSampleTimes == {0, 2000, 3500, 9500}       \* before the press, inside, after a release
TrSamples == {CameraSample(t, dx, dy, dx * 10, dy * 10) :
                 t \in TrSampleTimes, dx \in {-5, 12}, dy \in {0, 3}}
TrRates == {0, 250, 500, 1000}

NoSegment == CameraSegment(-1, -1, 0, 0, <<>>)
DefaultSettings == MacroSettings(500, 1, 0, 30, 5, FALSE, FALSE)
RnIdle == rn_segment = NoSegment /\ rn_settings = DefaultSettings /\ rn_runners = <<>>
PbIdle ==
    /\ recording = [events |-> <<>>, camera_segments |-> <<>>]
    /\ stop_event = FALSE /\ pc = "idle" /\ idx = 0 /\ active_runner = None
    /\ drain = [target |-> 0, caller |-> "", step |-> 0]
    /\ diag_objects = <<>> /\ position = <<0, 0>> /\ now = 0 /\ base = 0 /\ result = None
    /\ dispatch_log = <<>> /\ sink = <<>>
    /\ h_runs = [started |-> 0, finalized |-> <<>>, stop_seen |-> FALSE]
TrIdle == tr_segment = NoSegment /\ tr_rate = 0 /\ tr_resampled = None /\ tr_compared = None
AcIdle == ac_acc = SubPixelAccumulator(1) /\ ac_feeds = <<>> /\ ac_emitted = <<>> /\ ac_flushed = None
StIdle == st_file = None
RcIdle ==
    /\ rc_raw = FALSE /\ rc_events = <<>> /\ rc_segments = <<>> /\ rc_state = None
    /\ rc_rmb = FALSE /\ rc_last_pos = None /\ rc_queue = <<>>
    /\ rc_consumer = [pc |-> "idle", packet |-> None]
    /\ rc_clock = 0 /\ rc_running = FALSE /\ rc_returned = None
    /\ rc_arrived = <<>>
MfIdle ==
    /\ mf_settings = DefaultSettings /\ mf_calibration = DefaultCalibration
    /\ mf_filter = MotionFilter(DefaultSettings, DefaultCalibration) /\ mf_calls = <<>>
CfIdle == cf_data = None /\ cf_result = None
RpIdle ==
    /\ rp_file = None /\ rp_bundle = None /\ rp_pc = "idle" /\ rp_upserts = <<>>
    /\ rp_last_call = None
CmIdle == cm_model = CameraModel(DefaultCalibration, DefaultSettings) /\ cm_calls = <<>>
SnIdle == sn_max_step = 1 /\ sn_calls = <<>>
TlIdle == tl_base = None /\ tl_clock = 0 /\ tl_pc = "idle" /\ tl_target = 0 /\ tl_calls = <<>>
DrNoCall == [pc |-> "idle", kind |-> "", target |-> 0, stop |-> FALSE, step |-> 0, sent |-> 0,
             completed_before |-> FALSE]
DrIdle ==
    /\ dr_segment = CameraSegment(0, 0, 0, 0, <<>>) /\ dr_settings = DefaultSettings
    /\ dr_runner = None /\ dr_call = DrNoCall /\ dr_sent = <<>> /\ dr_returns = <<>>
CtIdle ==
    /\ ct_mode = "idle" /\ ct_recorder = None /\ ct_sessions = <<>>
    /\ ct_stop_event = None /\ ct_events = <<>> /\ ct_workers = <<>>
FinIdle == DrIdle /\ CtIdle
ExtIdle == RpIdle /\ CmIdle /\ SnIdle /\ TlIdle /\ FinIdle
AuxIdle == StIdle /\ RcIdle /\ MfIdle /\ CfIdle /\ ExtIdle

InitTrajectory ==
    /\ tr_segment \in {CameraSegment(0, 1, TrPress, r, ss) :
                          r \in TrReleases, ss \in SeqsUpTo(TrSamples, MaxSamples)}
    /\ tr_rate \in TrRates
    /\ tr_resampled = None
    /\ tr_compared = None
    /\ AcIdle /\ RnIdle /\ PbIdle /\ AuxIdle

\* trajectory = CameraTrajectory(segment, calibration); trajectory.resample(rate)
DoResample ==
    /\ tr_resampled = None
    /\ tr_resampled' = Some(Resample(CameraTrajectory(tr_segment, DefaultCalibration), tr_rate))
    /\ UNCHANGED <<tr_segment, tr_rate, tr_compared, ac_vars, rn_vars, pb_vars, aux_vars>>

\* trajectory = CameraTrajectory(segment, calibration); trajectory.compare_with(segment.samples)
DoCompare ==
    /\ tr_compared = None
    /\ tr_compared' = Some(CompareWith(CameraTrajectory(tr_segment, DefaultCalibration),
                                       tr_segment.samples))
    /\ UNCHANGED <<tr_segment, tr_rate, tr_resampled, ac_vars, rn_vars, pb_vars, aux_vars>>

NextTrajectory == DoResample \/ DoCompare

SpecTrajectory == InitTrajectory /\ [][NextTrajectory]_vars

\* ------------------------------------------------------------------------
\* Accumulator specification: feed calls, then one flush
\* ------------------------------------------------------------------------
AcMaxSteps == {0, 1, 2}                      \* the constructor's argument
AcFeedX == {-16, -5, 6, 12, 18, 36}          \* fixed-point counts: -1.6, -0.5, 0.6, 1.2, 1.8, 3.6
AcFeedY == {0, 25}

InitAccumulator ==
    /\ ac_acc \in {SubPixelAccumulator(m) : m \in AcMaxSteps}
    /\ ac_feeds = <<>>
    /\ ac_emitted = <<>>
    /\ ac_flushed = None
    /\ TrIdle /\ RnIdle /\ PbIdle /\ AuxIdle

DoFeed(counts_x, counts_y) ==
    /\ ac_flushed = None
    /\ Len(ac_feeds) < MaxFeeds
    /\ LET fed == Feed(ac_acc, counts_x, counts_y)
       IN  /\ ac_acc' = fed.acc
           /\ ac_emitted' = ac_emitted \o fed.emitted
    /\ ac_feeds' = Append(ac_feeds, <<counts_x, counts_y>>)
    /\ UNCHANGED <<ac_flushed, tr_vars, rn_vars, pb_vars, aux_vars>>

DoFlush ==
    /\ ac_flushed = None
    /\ LET flushed == Flush(ac_acc)
       IN  /\ ac_acc' = flushed.acc
           /\ ac_flushed' = Some(flushed.emitted)
    /\ UNCHANGED <<ac_feeds, ac_emitted, tr_vars, rn_vars, pb_vars, aux_vars>>

NextAccumulator ==
    \/ \E counts_x \in AcFeedX, counts_y \in AcFeedY : DoFeed(counts_x, counts_y)
    \/ DoFlush

SpecAccumulator == InitAccumulator /\ [][NextAccumulator]_vars

\* ------------------------------------------------------------------------
\* Runner specification: CameraPlaybackRunner instances built from one segment
\* ------------------------------------------------------------------------
MaxRnSamples == 2        \* samples of the drawn segment
MaxRunners   == 2        \* runners constructed from it

RnSamples == {CameraSample(t, dx, dy, dx * 10, dy * 10) :
                 t \in {1000, 3000}, dx \in {-5, 27}, dy \in {0, 3}}
RnSettings == {MacroSettings(rate, max_step, deadzone, 30, 5, inv_x, FALSE) :
                 rate \in {250, 500}, max_step \in {1, 2}, deadzone \in {0, 40}, inv_x \in BOOLEAN}

InitRunner ==
    /\ rn_segment \in {CameraSegment(0, 1, 0, r, ss) :
                          r \in {4000, 8000}, ss \in SeqsUpTo(RnSamples, MaxRnSamples)}
    /\ rn_settings \in RnSettings
    /\ rn_runners = <<>>
    /\ TrIdle /\ AcIdle /\ PbIdle /\ AuxIdle

\* runner = CameraPlaybackRunner(segment, settings, calibration, sender, index=...)
BuildRunner(index) ==
    /\ Len(rn_runners) < MaxRunners
    /\ rn_runners' = Append(rn_runners,
                            CameraPlaybackRunner(rn_segment, rn_settings, DefaultCalibration, index))
    /\ UNCHANGED <<rn_segment, rn_settings, tr_vars, ac_vars, pb_vars, aux_vars>>

NextRunner == \E index \in 1..MaxRunners : BuildRunner(index)

SpecRunner == InitRunner /\ [][NextRunner]_vars

\* ------------------------------------------------------------------------
\* events.py: MacroEvent, MacroRecording; recording.py: the segments a
\* RecordingSession derives from the right-button events it logs
\* ------------------------------------------------------------------------
MacroEvent(type, timestamp, button, x, y) ==
    [type |-> type, timestamp |-> timestamp, data |-> [button |-> button, x |-> x, y |-> y]]

IsRight(event, type) == event.type = type /\ event.data.button = "right"

\* the samples captured between a press and a release (at 10 counts per
\* degree): motion at 1 ms and at
\* 2.5 ms after the press (when motion is TRUE), none after the release
SegmentSamples(press_ts, release_ts, motion) ==
    IF ~motion THEN <<>>
    ELSE SelectSeq(<<CameraSample(press_ts + 1000, 8, -3, 80, -30),
                     CameraSample(press_ts + 2500, 9, 0, 90, 0)>>,
                   LAMBDA sm : sm.timestamp <= release_ts)

\* _on_mouse_click/_start_camera_segment/_finalize_camera_segment over the
\* logged events 1..k: the open segment state and the closed segments
RECURSIVE RecordedSegments(_, _, _, _)
RecordedSegments(events, k, motion, lag) ==
    IF k = 0 THEN [open |-> None, segments |-> <<>>]
    ELSE LET before == RecordedSegments(events, k - 1, motion, lag)
             event  == events[k]
         IN  IF IsRight(event, "mouse_press")
             THEN [before EXCEPT !.open = Some([press_event_index |-> k - 1,
                                                press_timestamp |-> event.timestamp])]
             ELSE IF IsRight(event, "mouse_release") /\ before.open # None
             THEN [open |-> None,
                   segments |-> Append(before.segments,
                       CameraSegment(Get(before.open).press_event_index, k - 1,
                                     Get(before.open).press_timestamp, event.timestamp + lag,
                                     SegmentSamples(Get(before.open).press_timestamp,
                                                    event.timestamp + lag, motion)))]
             ELSE before

\* RecordingSession.stop: an open segment is closed at the stop, stop_after
\* later than the last event
RecordedRecording(events, motion, lag, stop_after) ==
    LET body == RecordedSegments(events, Len(events), motion, lag)
        stop_ts == Last(events).timestamp + stop_after
    IN  [events |-> events,
         camera_segments |->
            IF body.open = None THEN body.segments
            ELSE Append(body.segments,
                        CameraSegment(Get(body.open).press_event_index, Len(events) - 1,
                                      Get(body.open).press_timestamp, stop_ts,
                                      SegmentSamples(Get(body.open).press_timestamp, stop_ts, motion)))]

\* ------------------------------------------------------------------------
\* io.py: RelativeMouseSender.send; playback.py: TimelineController
\* ------------------------------------------------------------------------
\* the loop of send with "while remaining_x and remaining_y"
RECURSIVE SenderMoves_UntilOneAxisDone(_, _, _, _)
SenderMoves_UntilOneAxisDone(remaining_x, remaining_y, max_step, moves) ==
    IF remaining_x = 0 \/ remaining_y = 0 THEN moves
    ELSE LET step_x == Clamp(remaining_x, -max_step, max_step)
             step_y == Clamp(remaining_y, -max_step, max_step)
         IN  SenderMoves_UntilOneAxisDone(remaining_x - step_x, remaining_y - step_y, max_step,
                                          Append(moves, <<step_x, step_y>>))

\* the loop of send: while remaining_x or remaining_y
RECURSIVE SenderMoves(_, _, _, _)
SenderMoves(remaining_x, remaining_y, max_step, moves) ==
    IF remaining_x = 0 /\ remaining_y = 0 THEN moves
    ELSE LET step_x == Clamp(remaining_x, -max_step, max_step)
             step_y == Clamp(remaining_y, -max_step, max_step)
         IN  SenderMoves(remaining_x - step_x, remaining_y - step_y, max_step,
                         Append(moves, <<step_x, step_y>>))

\* the relative moves one send(dx, dy) dispatches
SenderSend(dx, dy, max_step) == SenderMoves(dx, dy, Max(1, max_step), <<>>)

\* delay_seconds = sender_delay_ms / 1000, in time units
SenderDelay(settings) == (Max(0, settings.sender_delay_ms) * TicksPerSecond) \div (1000 * Scale)

\* TimelineController.sleep_until: the clock when it returns
SleepUntil(timestamp) == Max(now, base + Max(0, timestamp))

\* ------------------------------------------------------------------------
\* Playback specification: PlaybackSession.play
\* ------------------------------------------------------------------------
MaxEvents == 3           \* events of the recording

PbStart == 7000          \* time.perf_counter() when play() resets the timeline
PbSettings == MacroSettings(500, 2, 0, 30, 5, FALSE, FALSE)
PbCalibration == CameraCalibrationProfile(4, 4)

PbEventKinds ==
    {[type |-> "mouse_press", button |-> "right"], [type |-> "mouse_release", button |-> "right"],
     [type |-> "mouse_press", button |-> "left"],  [type |-> "mouse_press", button |-> "x1"],
     [type |-> "key_press", button |-> ""],
     [type |-> "mouse_move", button |-> ""],       [type |-> "mouse_scroll", button |-> ""]}

\* events logged gap apart, from time 0
PbEvents(kinds, gap) ==
    [i \in 1..Len(kinds) |-> MacroEvent(kinds[i].type, (i - 1) * gap, kinds[i].button, 5 * i, 7)]

PbRecordings ==
    {RecordedRecording(PbEvents(kinds, gap), motion, 2, gap) :
        kinds \in SeqsUpTo(PbEventKinds, MaxEvents),
        gap \in {2000, 3000}, motion \in BOOLEAN}

NoDrain == [target |-> 0, caller |-> "", step |-> 0]

InitPlayback ==
    /\ recording \in PbRecordings
    /\ stop_event = FALSE
    /\ pc = "loop"
    /\ idx = 0
    /\ active_runner = None
    /\ drain = NoDrain
    /\ diag_objects = <<>>
    /\ position = <<0, 0>>
    /\ now = PbStart
    /\ base = PbStart
    /\ result = None
    /\ dispatch_log = <<>>
    /\ sink = <<>>
    /\ h_runs = [started |-> 0, finalized |-> <<>>, stop_seen |-> FALSE]
    /\ TrIdle /\ AcIdle /\ RnIdle /\ AuxIdle

\* segments_by_press = {segment.press_event_index: segment for segment in camera_segments}
SegmentsByPress ==
    LET segs == recording.camera_segments
        keys == {segs[i].press_event_index : i \in 1..Len(segs)}
    IN  [k \in keys |->
            segs[CHOOSE i \in 1..Len(segs) :
                    /\ segs[i].press_event_index = k
                    /\ \A j \in 1..Len(segs) : segs[j].press_event_index = k => j <= i]]

\* _resolve_mouse_button
ResolveMouseButton(value) == IF value \in {"left", "right", "middle"} THEN Some(value) ELSE None

PlaybackResult(diags) ==
    [segments     |-> Len(diags),
     max_error_sq |-> IF diags = <<>> THEN 0
                      ELSE SetMax({diags[i].max_error_sq : i \in 1..Len(diags)})]

CurrentEvent == recording.events[idx + 1]
CurrentAction == Get(active_runner).actions[Get(active_runner).cursor + 1]

SawStop == h_runs' = [h_runs EXCEPT !.stop_seen = TRUE]

\* the other thread: stop_playback() sets the flag
SetStop ==
    /\ pc # "done"
    /\ ~stop_event
    /\ stop_event' = TRUE
    /\ UNCHANGED <<recording, pc, idx, active_runner, drain, diag_objects, position, now, base,
                   result, dispatch_log, sink, h_runs, tr_vars, ac_vars, rn_vars, aux_vars>>

\* play, lines 179-184: the head of one loop iteration
LoopCheck ==
    /\ pc = "loop"
    /\ IF idx >= Len(recording.events)
       THEN /\ pc' = "final"
            /\ UNCHANGED <<drain, h_runs>>
       ELSE IF stop_event
       THEN /\ pc' = "final"
            /\ SawStop
            /\ UNCHANGED drain
       ELSE IF active_runner # None
       THEN /\ pc' = "drain"
            /\ drain' = [target |-> CurrentEvent.timestamp, caller |-> "play", step |-> 0]
            /\ UNCHANGED h_runs
       ELSE /\ pc' = "sleep"
            /\ UNCHANGED <<drain, h_runs>>
    /\ UNCHANGED <<recording, stop_event, idx, active_runner, diag_objects, position, now, base,
                   result, dispatch_log, sink, tr_vars, ac_vars, rn_vars, aux_vars>>

\* DrainHead with the break taken at action.timestamp >= target_timestamp
DrainHead_StrictTarget ==
    /\ pc = "drain"
    /\ IF Get(active_runner).cursor >= Len(Get(active_runner).actions)
       THEN pc' = "drain_ret" /\ UNCHANGED <<drain, now, h_runs>>
       ELSE IF CurrentAction.timestamp >= drain.target
       THEN pc' = "drain_ret" /\ UNCHANGED <<drain, now, h_runs>>
       ELSE IF stop_event
       THEN pc' = "drain_ret" /\ SawStop /\ UNCHANGED <<drain, now>>
       ELSE /\ now' = SleepUntil(CurrentAction.timestamp)
            /\ drain' = [drain EXCEPT !.step = 1]
            /\ pc' = "drain_step"
            /\ UNCHANGED h_runs
    /\ UNCHANGED <<recording, stop_event, idx, active_runner, diag_objects, position, base,
                   result, dispatch_log, sink, tr_vars, ac_vars, rn_vars, aux_vars>>

\* drain_until, lines 126-132: the head of the while loop
DrainHead ==
    /\ pc = "drain"
    /\ IF Get(active_runner).cursor >= Len(Get(active_runner).actions)
       THEN pc' = "drain_ret" /\ UNCHANGED <<drain, now, h_runs>>
       ELSE IF CurrentAction.timestamp > drain.target + Eps
       THEN pc' = "drain_ret" /\ UNCHANGED <<drain, now, h_runs>>
       ELSE IF stop_event
       THEN pc' = "drain_ret" /\ SawStop /\ UNCHANGED <<drain, now>>
       ELSE /\ now' = SleepUntil(CurrentAction.timestamp)
            /\ drain' = [drain EXCEPT !.step = 1]
            /\ pc' = "drain_step"
            /\ UNCHANGED h_runs
    /\ UNCHANGED <<recording, stop_event, idx, active_runner, diag_objects, position, base,
                   result, dispatch_log, sink, tr_vars, ac_vars, rn_vars, aux_vars>>

\* DrainStepCheck without the stop_event.is_set() test of line 134
DrainStepCheck_NoStopCheck ==
    /\ pc = "drain_step"
    /\ IF drain.step > Len(CurrentAction.steps)
       THEN /\ active_runner' = Some([Get(active_runner) EXCEPT !.cursor = @ + 1])
            /\ drain' = [drain EXCEPT !.step = 0]
            /\ pc' = "drain"
       ELSE /\ pc' = "drain_send"
            /\ UNCHANGED <<active_runner, drain>>
    /\ UNCHANGED <<recording, stop_event, idx, diag_objects, position, now, base,
                   result, dispatch_log, sink, h_runs, tr_vars, ac_vars, rn_vars, aux_vars>>

\* drain_until, lines 133-135 and 137: the head of the loop over action.steps
DrainStepCheck ==
    /\ pc = "drain_step"
    /\ IF drain.step > Len(CurrentAction.steps)
       THEN /\ active_runner' = Some([Get(active_runner) EXCEPT !.cursor = @ + 1])
            /\ drain' = [drain EXCEPT !.step = 0]
            /\ pc' = "drain"
            /\ UNCHANGED h_runs
       ELSE IF stop_event
       THEN /\ pc' = "drain_ret"
            /\ drain' = [drain EXCEPT !.step = 0]
            /\ SawStop
            /\ UNCHANGED active_runner
       ELSE /\ pc' = "drain_send"
            /\ UNCHANGED <<active_runner, drain, h_runs>>
    /\ UNCHANGED <<recording, stop_event, idx, diag_objects, position, now, base,
                   result, dispatch_log, sink, tr_vars, ac_vars, rn_vars, aux_vars>>

\* drain_until, line 136: self.sender.send(step_x, step_y)
DrainSend ==
    /\ pc = "drain_send"
    /\ LET step  == CurrentAction.steps[drain.step]
           moves == SenderSend(step[1], step[2], PbSettings.sender_max_step)
       IN  /\ sink' = Append(sink, [x |-> step[1], y |-> step[2], moves |-> moves, at |-> now,
                                    runner |-> h_runs.started,
                                    action |-> Get(active_runner).cursor + 1, step |-> drain.step,
                                    after_stop |-> stop_event, after_seen |-> h_runs.stop_seen])
           /\ now' = now + Len(moves) * SenderDelay(PbSettings)
    /\ drain' = [drain EXCEPT !.step = @ + 1]
    /\ pc' = "drain_step"
    /\ UNCHANGED <<recording, stop_event, idx, active_runner, diag_objects, position, base,
                   result, dispatch_log, h_runs, tr_vars, ac_vars, rn_vars, aux_vars>>

\* finalize, lines 147-155, after its drain_until returned
Finalized(runner) ==
    SummarizePlayback(runner.segment, runner.diag_samples, runner.calibration, runner.index)

\* drain_until returns to its caller: play (line 184), finalize called for a
\* right-button release (lines 255, 195-197) or finalize after the loop (lines 200-211)
DrainReturn ==
    /\ pc = "drain_ret"
    /\ drain' = NoDrain
    /\ IF drain.caller = "play"
       THEN /\ pc' = "sleep"
            /\ UNCHANGED <<idx, active_runner, diag_objects, result, h_runs>>
       ELSE /\ diag_objects' = Append(diag_objects, Finalized(Get(active_runner)))
            /\ h_runs' = [h_runs EXCEPT !.finalized = Append(@, h_runs.started)]
            /\ IF drain.caller = "release"
               THEN /\ active_runner' = None
                    /\ idx' = idx + 1
                    /\ pc' = "loop"
                    /\ UNCHANGED result
               ELSE /\ active_runner' = Some([Get(active_runner) EXCEPT !.completed = TRUE])
                    /\ result' = Some(PlaybackResult(diag_objects'))
                    /\ pc' = "done"
                    /\ UNCHANGED idx
    /\ UNCHANGED <<recording, stop_event, position, now, base, dispatch_log, sink,
                   tr_vars, ac_vars, rn_vars, aux_vars>>

\* Sleep returning at once, whatever the clock
Sleep_NoWait ==
    /\ pc = "sleep"
    /\ pc' = "dispatch"
    /\ UNCHANGED <<recording, stop_event, idx, active_runner, drain, diag_objects, position, now, base,
                   result, dispatch_log, sink, h_runs, tr_vars, ac_vars, rn_vars, aux_vars>>

\* play, line 184: self.timeline.sleep_until(event.timestamp)
Sleep ==
    /\ pc = "sleep"
    /\ now' = SleepUntil(CurrentEvent.timestamp)
    /\ pc' = "dispatch"
    /\ UNCHANGED <<recording, stop_event, idx, active_runner, drain, diag_objects, position, base,
                   result, dispatch_log, sink, h_runs, tr_vars, ac_vars, rn_vars, aux_vars>>

Logged(effect) ==
    dispatch_log' = Append(dispatch_log,
                           [idx |-> idx, effect |-> effect, at |-> now,
                            runner_active |-> active_runner # None,
                            after_stop |-> stop_event, after_seen |-> h_runs.stop_seen])

\* the loop iteration ends with no runner started or finalized
NextEvent ==
    /\ idx' = idx + 1
    /\ pc' = "loop"
    /\ UNCHANGED <<active_runner, drain, diag_objects, h_runs>>

\* _dispatch_event, lines 224-229
DispatchMove ==
    /\ CurrentEvent.type = "mouse_move"
    /\ position' = <<CurrentEvent.data.x, CurrentEvent.data.y>>
    /\ Logged("position")
    /\ NextEvent

\* _dispatch_event, lines 230-234 and 257-267
DispatchOther ==
    /\ CurrentEvent.type \notin {"mouse_move", "mouse_press", "mouse_release"}
    /\ Logged(IF CurrentEvent.type \in {"mouse_scroll", "key_press", "key_release"}
              THEN CurrentEvent.type ELSE "none")
    /\ NextEvent
    /\ UNCHANGED position

\* _dispatch_event, lines 235-251, and play, lines 193-194
DispatchPress ==
    /\ CurrentEvent.type = "mouse_press"
    /\ LET button == ResolveMouseButton(CurrentEvent.data.button)
       IN  IF button = None
           THEN Logged("none") /\ NextEvent
           ELSE /\ Logged("press")
                /\ IF Get(button) = "right" /\ idx \in DOMAIN SegmentsByPress
                   THEN /\ active_runner' = Some(CameraPlaybackRunner(SegmentsByPress[idx], PbSettings,
                                                     PbCalibration, Len(diag_objects) + 1))
                        /\ h_runs' = [h_runs EXCEPT !.started = @ + 1]
                        /\ idx' = idx + 1
                        /\ pc' = "loop"
                        /\ UNCHANGED <<drain, diag_objects>>
                   ELSE NextEvent
    /\ UNCHANGED position

\* _dispatch_event, lines 235-238 and 252-256, and finalize, lines 144-146
DispatchRelease ==
    /\ CurrentEvent.type = "mouse_release"
    /\ LET button == ResolveMouseButton(CurrentEvent.data.button)
       IN  IF button = None
           THEN Logged("none") /\ NextEvent
           ELSE /\ Logged("release")
                /\ IF Get(button) = "right" /\ active_runner # None
                      /\ ~Get(active_runner).completed
                   THEN /\ drain' = [target |-> Get(active_runner).segment.release_timestamp,
                                     caller |-> "release", step |-> 0]
                        /\ pc' = "drain"
                        /\ UNCHANGED <<idx, active_runner, diag_objects, h_runs>>
                   ELSE NextEvent
    /\ UNCHANGED position

\* play, lines 185-197: self._dispatch_event(...) and what play does with its result
Dispatch ==
    /\ pc = "dispatch"
    /\ \/ DispatchMove
       \/ DispatchOther
       \/ DispatchPress
       \/ DispatchRelease
    /\ UNCHANGED <<recording, stop_event, now, base, result, sink, tr_vars, ac_vars, rn_vars, aux_vars>>

\* Final without lines 199-202: a runner still active is not finalized
Final_NoFinalize ==
    /\ pc = "final"
    /\ result' = Some(PlaybackResult(diag_objects))
    /\ pc' = "done"
    /\ UNCHANGED <<recording, stop_event, idx, active_runner, drain, diag_objects, position, now, base,
                   dispatch_log, sink, h_runs, tr_vars, ac_vars, rn_vars, aux_vars>>

\* play, lines 199-211: after the loop
Final ==
    /\ pc = "final"
    /\ IF active_runner # None /\ ~Get(active_runner).completed
       THEN /\ drain' = [target |-> Get(active_runner).segment.release_timestamp,
                         caller |-> "final", step |-> 0]
            /\ pc' = "drain"
            /\ UNCHANGED result
       ELSE /\ result' = Some(PlaybackResult(diag_objects))
            /\ pc' = "done"
            /\ UNCHANGED drain
    /\ UNCHANGED <<recording, stop_event, idx, active_runner, diag_objects, position, now, base,
                   dispatch_log, sink, h_runs, tr_vars, ac_vars, rn_vars, aux_vars>>

Next ==
    \/ SetStop
    \/ LoopCheck
    \/ DrainHead
    \/ DrainStepCheck
    \/ DrainSend
    \/ DrainReturn
    \/ Sleep
    \/ Dispatch
    \/ Final

Spec == InitPlayback /\ [][Next]_vars

\* ------------------------------------------------------------------------
\* Playback with an injection sink that can fail
\* ------------------------------------------------------------------------
\* drain_until, line 136, when the backend raises: RelativeMouseSender.send
\* hands the call to its one implementation, and neither drain_until,
\* finalize, _dispatch_event nor play catches; the exception leaves play.
DrainSendRaises ==
    /\ pc = "drain_send"
    /\ pc' = "raised"
    /\ UNCHANGED <<recording, stop_event, idx, active_runner, drain, diag_objects, position, now,
                   base, result, dispatch_log, sink, h_runs, tr_vars, ac_vars, rn_vars, aux_vars>>

NextFailingSink == Next \/ DrainSendRaises

SpecFailingSink == InitPlayback /\ [][NextFailingSink]_vars

\* ------------------------------------------------------------------------
\* storage.py / events.py / ui.py: a saved recording is loaded and played
\* ------------------------------------------------------------------------
\* CameraSegment.to_dict: every field under its key
SegmentToDict(segment) ==
    [press_event_index |-> Some(segment.press_event_index),
     release_event_index |-> Some(segment.release_event_index),
     press_timestamp |-> segment.press_timestamp,
     release_timestamp |-> segment.release_timestamp,
     samples |-> segment.samples]

\* MacroRecording.to_dict, as MacroStorage.save writes it
RecordingToDict(rec) ==
    [events |-> rec.events,
     camera_segments |-> [i \in 1..Len(rec.camera_segments) |-> SegmentToDict(rec.camera_segments[i])]]

\* CameraSegment.from_dict: int(payload.get("press_event_index", -1)), ...
SegmentFromDict(payload) ==
    CameraSegment(IF payload.press_event_index = None THEN -1 ELSE Get(payload.press_event_index),
                  IF payload.release_event_index = None THEN -1 ELSE Get(payload.release_event_index),
                  payload.press_timestamp, payload.release_timestamp, payload.samples)

\* MacroEvent.from_dict
EventFromDict(payload) ==
    MacroEvent(payload.type, payload.timestamp, payload.data.button, payload.data.x, payload.data.y)

\* MacroRecording.from_dict: the events and the segments are rebuilt one by
\* one; nothing relates a segment's indices to the events
RecordingFromDict(payload) ==
    [events |-> [i \in 1..Len(payload.events) |-> EventFromDict(payload.events[i])],
     camera_segments |-> [i \in 1..Len(payload.camera_segments) |->
                            SegmentFromDict(payload.camera_segments[i])]]

\* a saved file as found on disk: as written, or with the first segment's
\* indices changed or absent
FileEdits == {"none", "press_shifted", "press_missing", "release_beyond"}

EditFile(payload, edit) ==
    IF edit = "none" \/ payload.camera_segments = <<>> THEN payload
    ELSE LET first == payload.camera_segments[1]
             edited ==
                CASE edit = "press_shifted" ->
                        [first EXCEPT !.press_event_index = Some(Get(first.press_event_index) + 1)]
                  [] edit = "press_missing" ->
                        [first EXCEPT !.press_event_index = None]
                  [] OTHER ->
                        [first EXCEPT !.release_event_index = Some(Len(payload.events) + 2)]
         IN  [payload EXCEPT !.camera_segments[1] = edited]

LoadFiles ==
    {EditFile(RecordingToDict(RecordedRecording(PbEvents(kinds, 2000), TRUE, 2, 2000)), edit) :
        kinds \in SeqsUpTo(PbEventKinds, MaxEvents), edit \in FileEdits}

InitLoad ==
    /\ st_file \in {None} \cup {Some(f) : f \in LoadFiles}
    /\ recording = [events |-> <<>>, camera_segments |-> <<>>]
    /\ stop_event = FALSE
    /\ pc = "load"
    /\ idx = 0
    /\ active_runner = None
    /\ drain = NoDrain
    /\ diag_objects = <<>>
    /\ position = <<0, 0>>
    /\ now = PbStart
    /\ base = PbStart
    /\ result = None
    /\ dispatch_log = <<>>
    /\ sink = <<>>
    /\ h_runs = [started |-> 0, finalized |-> <<>>, stop_seen |-> FALSE]
    /\ TrIdle /\ AcIdle /\ RnIdle /\ RcIdle /\ MfIdle /\ CfIdle /\ ExtIdle

\* play_macro: storage.load(slug), FileNotFoundError ends it, any recording
\* that from_dict returns goes to session.play
PlayMacro ==
    /\ pc = "load"
    /\ IF st_file = None
       THEN /\ pc' = "load_error"
            /\ UNCHANGED recording
       ELSE /\ recording' = RecordingFromDict(Get(st_file))
            /\ pc' = "loop"
    /\ UNCHANGED <<stop_event, idx, active_runner, drain, diag_objects, position, now, base,
                   result, dispatch_log, sink, h_runs, tr_vars, ac_vars, rn_vars, aux_vars>>

NextLoad == PlayMacro \/ Next

SpecLoad == InitLoad /\ [][NextLoad]_vars

\* ------------------------------------------------------------------------
\* recording.py: RecordingSession between start() and stop()
\* ------------------------------------------------------------------------
MaxRcEvents == 3         \* events one session logs
MaxPackets  == 2         \* raw packets and samples one session holds
MaxRawClock == 3         \* clock readings before the last raw packet

CameraSegmentState(press_event_index, press_timestamp, samples) ==
    [press_event_index |-> press_event_index, press_timestamp |-> press_timestamp,
     samples |-> samples]

\* _append_event: the event list afterwards
AppendEvent(events, type, timestamp, button, x, y) ==
    Append(events, MacroEvent(type, timestamp, button, x, y))

\* _append_camera_delta where the sample also lands in the segment closed last
AppendCameraDelta_IntoClosed(state, segments, dx, dy, timestamp) ==
    IF state = None THEN [state |-> state, segments |-> segments]
    ELSE LET angle  == CountsToAngles(CameraModel(DefaultCalibration, DefaultSettings), dx, dy, FALSE)
             sample == CameraSample(timestamp, angle[1], angle[2], dx, dy)
         IN  [state |-> Some([Get(state) EXCEPT !.samples = Append(@, sample)]),
              segments |-> IF segments = <<>> THEN segments
                           ELSE [segments EXCEPT ![Len(segments)].samples = Append(@, sample)]]

\* _append_camera_delta: _segment_state and _segments afterwards
AppendCameraDelta(state, segments, dx, dy, timestamp) ==
    IF state = None THEN [state |-> state, segments |-> segments]
    ELSE LET angle == CountsToAngles(CameraModel(DefaultCalibration, DefaultSettings), dx, dy, FALSE)
         IN  [state |-> Some([Get(state) EXCEPT !.samples =
                                 Append(@, CameraSample(timestamp, angle[1], angle[2], dx, dy))]),
              segments |-> segments]

\* _start_camera_segment
StartCameraSegment(events, event_index) ==
    Some(CameraSegmentState(event_index, events[event_index + 1].timestamp, <<>>))

\* _finalize_camera_segment without line 207: the segment state is kept
FinalizeCameraSegment_KeepsState(state, segments, release_timestamp, release_event_index) ==
    IF state = None THEN [state |-> None, segments |-> segments]
    ELSE [state |-> state,
          segments |-> Append(segments,
              CameraSegment(Get(state).press_event_index, release_event_index,
                            Get(state).press_timestamp, release_timestamp,
                            SelectSeq(Get(state).samples,
                                      LAMBDA sm : sm.angle_dx # 0 \/ sm.angle_dy # 0)))]

\* _finalize_camera_segment: _segment_state and _segments afterwards
FinalizeCameraSegment(state, segments, release_timestamp, release_event_index) ==
    IF state = None THEN [state |-> None, segments |-> segments]
    ELSE [state |-> None,
          segments |-> Append(segments,
              CameraSegment(Get(state).press_event_index, release_event_index,
                            Get(state).press_timestamp, release_timestamp,
                            SelectSeq(Get(state).samples,
                                      LAMBDA sm : sm.angle_dx # 0 \/ sm.angle_dy # 0)))]

RcSampleCount ==
    (IF rc_state = None THEN 0 ELSE Len(Get(rc_state).samples))
    + SumSeq([i \in 1..Len(rc_segments) |-> Len(rc_segments[i].samples)])
    + Len(rc_queue) + (IF rc_consumer.packet = None THEN 0 ELSE 1)

InitRecorder ==
    /\ rc_raw \in BOOLEAN
    /\ rc_events = <<>> /\ rc_segments = <<>> /\ rc_state = None
    /\ rc_rmb = FALSE /\ rc_last_pos = None /\ rc_queue = <<>>
    /\ rc_consumer = [pc |-> "idle", packet |-> None]
    /\ rc_clock = 0
    /\ rc_running = TRUE
    /\ rc_returned = None
    /\ rc_arrived = <<>>
    /\ StIdle /\ MfIdle /\ CfIdle /\ ExtIdle
    /\ TrIdle /\ AcIdle /\ RnIdle /\ PbIdle

rc_others == <<tr_vars, ac_vars, rn_vars, pb_vars, st_vars, mf_vars, cf_vars, ext_vars>>

\* Every reading of time.perf_counter() is later than the one before: the
\* clock counts the readings.

\* _on_mouse_click, on the mouse listener thread.  raced: the keyboard
\* listener thread appends a key event between the append of _append_event
\* (line 151) and its len(self._events) - 1 (line 152)
OnMouseClick(button, pressed, raced) ==
    /\ rc_running
    /\ Len(rc_events) + (IF raced THEN 2 ELSE 1) <= MaxRcEvents
    /\ LET logged == AppendEvent(rc_events, IF pressed THEN "mouse_press" ELSE "mouse_release",
                                 rc_clock, button, 0, 0)
           events == IF raced THEN AppendEvent(logged, "key_press", rc_clock, "", 0, 0) ELSE logged
           event_index == Len(events) - 1
           closed == FinalizeCameraSegment(rc_state, rc_segments, rc_clock + 1, event_index)
       IN  /\ rc_events' = events
           /\ rc_clock' = rc_clock + (IF button = "right" /\ ~pressed THEN 2 ELSE 1)
           /\ IF button # "right"
              THEN UNCHANGED <<rc_rmb, rc_state, rc_segments>>
              ELSE /\ rc_rmb' = pressed
                   /\ IF pressed
                      THEN /\ rc_state' = StartCameraSegment(events, event_index)
                           /\ UNCHANGED rc_segments
                      ELSE /\ rc_state' = closed.state
                           /\ rc_segments' = closed.segments
    /\ UNCHANGED <<rc_raw, rc_last_pos, rc_queue, rc_consumer, rc_running, rc_returned,
                   rc_arrived, rc_others>>

\* _on_mouse_move, on the mouse listener thread
OnMouseMove(x) ==
    /\ rc_running
    /\ Len(rc_events) < MaxRcEvents
    /\ LET last  == IF rc_last_pos = None THEN x ELSE Get(rc_last_pos)
           dx    == (x - last) * Scale
           added == AppendCameraDelta(rc_state, rc_segments, dx, 0, rc_clock)
       IN  /\ rc_last_pos' = Some(x)
           /\ rc_events' = AppendEvent(rc_events, "mouse_move", rc_clock, "", x, 0)
           /\ IF rc_rmb /\ ~rc_raw
              THEN rc_state' = added.state /\ rc_segments' = added.segments
              ELSE UNCHANGED <<rc_state, rc_segments>>
    /\ rc_clock' = rc_clock + 1
    /\ UNCHANGED <<rc_raw, rc_rmb, rc_queue, rc_consumer, rc_running, rc_returned,
                   rc_arrived, rc_others>>

\* _on_key_press, on the keyboard listener thread
OnKeyPress ==
    /\ rc_running
    /\ Len(rc_events) < MaxRcEvents
    /\ rc_events' = AppendEvent(rc_events, "key_press", rc_clock, "", 0, 0)
    /\ rc_clock' = rc_clock + 1
    /\ UNCHANGED <<rc_raw, rc_segments, rc_state, rc_rmb, rc_last_pos, rc_queue, rc_consumer,
                   rc_running, rc_returned, rc_arrived, rc_others>>

\* io.py _process_raw_input, on the raw stream thread: a packet with motion is
\* stamped with the clock and queued
RawProduce(dx, dy) ==
    /\ rc_running /\ rc_raw
    /\ RcSampleCount < MaxPackets
    /\ rc_clock < MaxRawClock
    /\ rc_queue' = Append(rc_queue, [dx |-> dx, dy |-> dy, timestamp |-> rc_clock])
    /\ rc_clock' = rc_clock + 1
    /\ rc_arrived' = IF rc_rmb /\ rc_state # None
                      THEN Append(rc_arrived, [timestamp |-> rc_clock,
                                               press_timestamp |-> Get(rc_state).press_timestamp])
                      ELSE rc_arrived
    /\ UNCHANGED <<rc_raw, rc_events, rc_segments, rc_state, rc_rmb, rc_last_pos, rc_consumer,
                   rc_running, rc_returned, rc_others>>

\* _consume_raw_stream, lines 119-124, and _handle_raw_packet, lines 127-128
ConsumerGet ==
    /\ rc_running /\ rc_consumer.pc = "idle"
    /\ rc_queue # <<>>
    /\ rc_queue' = Tail(rc_queue)
    /\ rc_consumer' = IF ~rc_rmb \/ rc_state = None
                      THEN [pc |-> "idle", packet |-> None]
                      ELSE [pc |-> "handle", packet |-> Some(Head(rc_queue))]
    /\ UNCHANGED <<rc_raw, rc_events, rc_segments, rc_state, rc_rmb, rc_last_pos,
                   rc_clock, rc_running, rc_returned, rc_arrived, rc_others>>

\* _append_camera_delta, lines 133-134, on the consumer thread
ConsumerCheck ==
    /\ rc_consumer.pc = "handle"
    /\ rc_consumer' = IF rc_state = None
                      THEN [pc |-> "idle", packet |-> None]
                      ELSE [rc_consumer EXCEPT !.pc = "append"]
    /\ UNCHANGED <<rc_raw, rc_events, rc_segments, rc_state, rc_rmb, rc_last_pos, rc_queue,
                   rc_clock, rc_running, rc_returned, rc_arrived, rc_others>>

\* _append_camera_delta, lines 135-143, on the consumer thread:
\* self._segment_state is read again at line 143, and the thread ends with an
\* AttributeError when the segment was closed meanwhile
ConsumerAppend ==
    /\ rc_consumer.pc = "append"
    /\ LET packet == Get(rc_consumer.packet)
           added  == AppendCameraDelta(rc_state, rc_segments, packet.dx * Scale, packet.dy * Scale,
                                       packet.timestamp)
       IN  IF rc_state = None
           THEN /\ rc_consumer' = [pc |-> "dead", packet |-> None]
                /\ UNCHANGED <<rc_state, rc_segments>>
           ELSE /\ rc_consumer' = [pc |-> "idle", packet |-> None]
                /\ rc_state' = added.state
                /\ rc_segments' = added.segments
    /\ UNCHANGED <<rc_raw, rc_events, rc_rmb, rc_last_pos, rc_queue,
                   rc_clock, rc_running, rc_returned, rc_arrived, rc_others>>

\* stop(): the listeners and the consumer thread are joined, an open segment
\* is closed at the last event, the recording is returned
StopRecording ==
    /\ rc_running
    /\ rc_consumer.pc \in {"idle", "dead"}
    /\ LET closed == FinalizeCameraSegment(rc_state, rc_segments, rc_clock, Len(rc_events) - 1)
       IN  /\ rc_returned' = Some([events |-> rc_events, camera_segments |-> closed.segments])
           /\ rc_state' = closed.state
    /\ rc_events' = <<>>
    /\ rc_segments' = <<>>
    /\ rc_running' = FALSE
    /\ rc_clock' = rc_clock + 1
    /\ UNCHANGED <<rc_raw, rc_rmb, rc_last_pos, rc_queue, rc_consumer, rc_arrived, rc_others>>

NextRecorder ==
    \/ \E button \in {"right", "left"}, pressed \in BOOLEAN, raced \in BOOLEAN :
          OnMouseClick(button, pressed, raced)
    \/ \E x \in {0, 3} : OnMouseMove(x)
    \/ OnKeyPress
    \/ \E dx \in {-2, 5} : RawProduce(dx, 0)
    \/ ConsumerGet
    \/ ConsumerCheck
    \/ ConsumerAppend
    \/ StopRecording

SpecRecorder == InitRecorder /\ [][NextRecorder]_vars

\* ------------------------------------------------------------------------
\* Filter specification: one MotionFilter and a run of apply calls
\* ------------------------------------------------------------------------
MaxApplies == 2          \* apply calls on one filter

\* deadzone 0 or 2.5 counts, reverse_tiny_ratio 0.5 or 1.0, strict_mode either way
MfSettings ==
    {[MacroSettings(500, 1, deadzone, 30, ratio, FALSE, FALSE) EXCEPT !.strict_mode = strict] :
        deadzone \in {0, 25}, ratio \in {5, 10}, strict \in BOOLEAN}
MfCalibration == CameraCalibrationProfile(5, 5)
MfInputX == {-1, 0, 2, 5, 6, 30}
MfInputY == {-1, 0, 30}
MfGaps == {10000, 50000}     \* 10 ms and 50 ms between calls

InitFilter ==
    /\ mf_settings \in MfSettings
    /\ mf_calibration = MfCalibration
    /\ mf_filter = MotionFilter(mf_settings, mf_calibration)
    /\ mf_calls = <<>>
    /\ StIdle /\ RcIdle /\ CfIdle /\ ExtIdle
    /\ TrIdle /\ AcIdle /\ RnIdle /\ PbIdle

\* filter.apply(dx, dy, timestamp), gap after the call before
DoApply(dx, dy, gap) ==
    /\ Len(mf_calls) < MaxApplies
    /\ LET timestamp == IF mf_calls = <<>> THEN gap ELSE Last(mf_calls).timestamp + gap
           applied   == FilterApply(mf_filter, dx, dy, timestamp)
       IN  /\ mf_filter' = applied.filter
           /\ mf_calls' = Append(mf_calls,
                  [dx |-> dx, dy |-> dy, timestamp |-> timestamp, out |-> applied.out,
                   last |-> IF mf_filter.history = <<>> THEN None
                            ELSE Some(Last(mf_filter.history))])
    /\ UNCHANGED <<mf_settings, mf_calibration, tr_vars, ac_vars, rn_vars, pb_vars,
                   st_vars, rc_vars, cf_vars, ext_vars>>

NextFilter == \E dx \in MfInputX, dy \in MfInputY, gap \in MfGaps : DoApply(dx, dy, gap)

SpecFilter == InitFilter /\ [][NextFilter]_vars

\* ------------------------------------------------------------------------
\* config.py: MacroSettings.from_dict / sanitize on JSON-like values
\* ------------------------------------------------------------------------
\* A value of the input mapping: a number (fixed-point), a string spelling a
\* number, any other string, or null.
NumValue(v)    == [kind |-> "num", v |-> v]
NumStrValue(v) == [kind |-> "numstr", v |-> v]
StrValue       == [kind |-> "str", v |-> 0]
NullValue      == [kind |-> "null", v |-> 0]

\* float(value): the number, or the exception raised
PyFloat(value) ==
    CASE value.kind \in {"num", "numstr"} -> [raised |-> "", v |-> value.v]
      [] value.kind = "str"               -> [raised |-> "ValueError", v |-> 0]
      [] OTHER                            -> [raised |-> "TypeError", v |-> 0]

\* int(value): truncation of a number, the integer a string spells, or the
\* exception raised
PyInt(value) ==
    CASE value.kind = "num" ->
            [raised |-> "", v |-> IF value.v >= 0 THEN value.v \div Scale ELSE -((-value.v) \div Scale)]
      [] value.kind = "numstr" ->
            IF value.v % Scale = 0 THEN [raised |-> "", v |-> value.v \div Scale]
            ELSE [raised |-> "ValueError", v |-> 0]
      [] value.kind = "str" -> [raised |-> "ValueError", v |-> 0]
      [] OTHER              -> [raised |-> "TypeError", v |-> 0]

\* bool(value)
PyBool(value) ==
    CASE value.kind = "num" -> value.v # 0
      [] value.kind \in {"numstr", "str"} -> TRUE
      [] OTHER -> FALSE

\* MacroSettings(): the defaults, as values (0.35 and 0.08 at the 0.1 resolution)
SettingsDefaults ==
    [target_rate_hz |-> NumValue(4800), sender_max_step |-> NumValue(10),
     deadzone_threshold |-> NumValue(3), reverse_tiny_ratio |-> NumValue(1),
     strict_mode |-> NumValue(0)]

\* {**base.to_dict(), **(data or {})}: a key of data overrides the default
Merged(data) ==
    [key \in DOMAIN SettingsDefaults |->
        IF data.fields[key] = None THEN SettingsDefaults[key] ELSE Get(data.fields[key])]

\* sanitize(): the coerced and clamped fields, or the first exception raised
Sanitize(merged) ==
    LET rate     == PyFloat(merged.target_rate_hz)
        max_step == PyInt(merged.sender_max_step)
        deadzone == PyFloat(merged.deadzone_threshold)
        ratio    == PyFloat(merged.reverse_tiny_ratio)
        raised   == <<rate.raised, max_step.raised, deadzone.raised, ratio.raised>>
        failed   == {i \in 1..4 : raised[i] # ""}
    IN  IF failed # {}
        THEN [raised |-> raised[CHOOSE i \in failed : \A j \in failed : i <= j], settings |-> None]
        ELSE [raised |-> "",
              settings |-> Some([target_rate_hz     |-> Clamp(rate.v, 900, 9600),
                                 sender_max_step    |-> Max(1, max_step.v),
                                 deadzone_threshold |-> Clamp(deadzone.v, 0, 25),
                                 reverse_tiny_ratio |-> Clamp(ratio.v, 0, 10),
                                 strict_mode        |-> PyBool(merged.strict_mode)])]

\* MacroSettings.from_dict(data): cls(**merged) raises TypeError on a key that
\* is no field of the dataclass
FromDict(data) ==
    IF data.unknown_key THEN [raised |-> "TypeError", settings |-> None]
    ELSE Sanitize(Merged(data))

CfInputs ==
    {[fields |-> [target_rate_hz |-> rate, sender_max_step |-> max_step,
                  deadzone_threshold |-> deadzone, reverse_tiny_ratio |-> ratio,
                  strict_mode |-> strict],
      unknown_key |-> unknown] :
        rate \in {None, Some(NumValue(500)), Some(NumValue(4800)), Some(NumValue(20000)),
                  Some(NumStrValue(1200)), Some(StrValue), Some(NullValue)},
        max_step \in {None, Some(NumValue(0)), Some(NumValue(27)), Some(NumValue(-30)),
                      Some(NumStrValue(25)), Some(StrValue)},
        deadzone \in {None, Some(NumValue(-10)), Some(NumValue(50))},
        ratio \in {None, Some(NumValue(-10)), Some(NumValue(5)), Some(NumValue(30))},
        strict \in {None, Some(NumValue(10)), Some(StrValue)},
        unknown \in BOOLEAN}

InitSettings ==
    /\ cf_data \in {Some(d) : d \in CfInputs}
    /\ cf_result = None
    /\ StIdle /\ RcIdle /\ MfIdle /\ ExtIdle
    /\ TrIdle /\ AcIdle /\ RnIdle /\ PbIdle

\* SettingsRepository.load / update_settings call MacroSettings.from_dict
DoFromDict ==
    /\ cf_result = None
    /\ cf_result' = Some(FromDict(Get(cf_data)))
    /\ UNCHANGED <<cf_data, tr_vars, ac_vars, rn_vars, pb_vars, st_vars, rc_vars, mf_vars, ext_vars>>

NextSettings == DoFromDict

SpecSettings == InitSettings /\ [][NextSettings]_vars

\* ------------------------------------------------------------------------
\* config.py: CameraCalibrationProfile.sanitize / from_dict, SettingsRepository
\* ------------------------------------------------------------------------
MaxUpserts == 1          \* upsert_calibration calls on one repository

\* A profile as the repository holds it: its name and its counts per degree,
\* here fixed-point (Scale units per count), so that 0.1 is 1.
CalibrationProfile(name, counts_x, counts_y) ==
    [name |-> name, counts_per_degree_x |-> counts_x, counts_per_degree_y |-> counts_y]

\* sanitize() where the counts per degree are kept as given
SanitizeCalibration_NoFloor(name, counts_x, counts_y) ==
    LET x == PyFloat(counts_x)
        y == PyFloat(counts_y)
    IN  IF x.raised # "" THEN [raised |-> x.raised, profile |-> None]
        ELSE IF y.raised # "" THEN [raised |-> y.raised, profile |-> None]
        ELSE [raised |-> "", profile |-> Some(CalibrationProfile(name, x.v, y.v))]

\* CameraCalibrationProfile.sanitize: counts = max(0.1, float(counts)), or the
\* exception float() raises
SanitizeCalibration(name, counts_x, counts_y) ==
    LET x == PyFloat(counts_x)
        y == PyFloat(counts_y)
    IN  IF x.raised # "" THEN [raised |-> x.raised, profile |-> None]
        ELSE IF y.raised # "" THEN [raised |-> y.raised, profile |-> None]
        ELSE [raised |-> "", profile |-> Some(CalibrationProfile(name, Max(1, x.v), Max(1, y.v)))]

\* CameraCalibrationProfile(): name "roblox_default", 12.5 counts per degree
CalibrationDefaults ==
    [name |-> "roblox_default", counts_per_degree_x |-> NumValue(125), counts_per_degree_y |-> NumValue(125)]

\* CameraCalibrationProfile.from_dict(data): the keys of data over the defaults
CalibrationFromDict(data) ==
    SanitizeCalibration(
        IF data.name = None THEN CalibrationDefaults.name ELSE Get(data.name),
        IF data.counts_per_degree_x = None THEN CalibrationDefaults.counts_per_degree_x
        ELSE Get(data.counts_per_degree_x),
        IF data.counts_per_degree_y = None THEN CalibrationDefaults.counts_per_degree_y
        ELSE Get(data.counts_per_degree_y))

\* DEFAULT_CALIBRATION = CameraCalibrationProfile().sanitize()
DEFAULT_CALIBRATION == CalibrationProfile("roblox_default", 125, 125)

\* DEFAULT_BUNDLE
DEFAULT_BUNDLE ==
    [calibrations |-> [n \in {DEFAULT_CALIBRATION.name} |-> DEFAULT_CALIBRATION],
     active_calibration |-> DEFAULT_CALIBRATION.name]

\* a mapping with one more entry: updated[key] = value
DictSet(dict, key, value) ==
    [k \in DOMAIN dict \cup {key} |-> IF k = key THEN value ELSE dict[k]]

\* the loop over calibrations_payload (lines 173-179): a dict entry is read
\* with its key as the name unless the entry names itself, a list entry under
\* the name it carries; the first exception ends the loop
RECURSIVE LoadCalibrations(_, _, _)
LoadCalibrations(entries, as_list, calibrations) ==
    IF entries = <<>> THEN [raised |-> "", calibrations |-> calibrations]
    ELSE LET entry == Head(entries)
             data  == IF as_list \/ entry.data.name # None THEN entry.data
                      ELSE [entry.data EXCEPT !.name = Some(entry.key)]
             cal   == CalibrationFromDict(data)
         IN  IF cal.raised # "" THEN [raised |-> cal.raised, calibrations |-> calibrations]
             ELSE LoadCalibrations(Tail(entries), as_list,
                      DictSet(calibrations,
                              IF as_list THEN Get(cal.profile).name ELSE entry.key,
                              Get(cal.profile)))

EmptyDict == [n \in {} |-> DEFAULT_CALIBRATION]

\* the dict keeps insertion order: next(iter(calibrations.keys())) is the
\* first entry that loaded
FirstKey(entries, as_list) ==
    IF as_list THEN Get(CalibrationFromDict(entries[1].data).profile).name ELSE entries[1].key

\* LoadBundle where the active name of the file is kept although no profile
\* has it
LoadBundle_KeepsActive(payload) ==
    LET settings == FromDict(payload.settings)
        loaded   == LoadCalibrations(payload.calibrations, payload.as_list, EmptyDict)
        calibrations == IF DOMAIN loaded.calibrations = {} THEN DEFAULT_BUNDLE.calibrations
                        ELSE loaded.calibrations
        wanted   == IF payload.active_calibration = None THEN DEFAULT_CALIBRATION.name
                    ELSE Get(payload.active_calibration)
    IN  IF settings.raised # "" THEN [raised |-> settings.raised, bundle |-> None]
        ELSE IF loaded.raised # "" THEN [raised |-> loaded.raised, bundle |-> None]
        ELSE [raised |-> "",
              bundle |-> Some([calibrations |-> calibrations, active_calibration |-> wanted])]

\* SettingsRepository.load on a parsed payload
LoadBundle(payload) ==
    LET settings == FromDict(payload.settings)
        loaded   == LoadCalibrations(payload.calibrations, payload.as_list, EmptyDict)
        calibrations == IF DOMAIN loaded.calibrations = {} THEN DEFAULT_BUNDLE.calibrations
                        ELSE loaded.calibrations
        wanted   == IF payload.active_calibration = None THEN DEFAULT_CALIBRATION.name
                    ELSE Get(payload.active_calibration)
    IN  IF settings.raised # "" THEN [raised |-> settings.raised, bundle |-> None]
        ELSE IF loaded.raised # "" THEN [raised |-> loaded.raised, bundle |-> None]
        ELSE [raised |-> "",
              bundle |-> Some([calibrations |-> calibrations,
                               active_calibration |->
                                   IF wanted \in DOMAIN calibrations THEN wanted
                                   ELSE IF DOMAIN loaded.calibrations = {}
                                        THEN DEFAULT_CALIBRATION.name
                                        ELSE FirstKey(payload.calibrations, payload.as_list)])]

\* set_active_calibration: KeyError for a name that is no key, else a bundle
\* with that name active
SetActive(bundle, name) ==
    IF name \notin DOMAIN bundle.calibrations
    THEN [raised |-> "KeyError", bundle |-> bundle]
    ELSE [raised |-> "", bundle |-> [bundle EXCEPT !.active_calibration = name]]

RpCountsX == {None, Some(NumValue(0)), Some(NumValue(-50)), Some(StrValue)}
RpCountsY == {None, Some(NumValue(0))}

RpEntries ==
    {[key |-> key, data |-> [name |-> name, counts_per_degree_x |-> x, counts_per_degree_y |-> y]] :
        key \in {"a", "b"}, name \in {None, Some("b")}, x \in RpCountsX, y \in RpCountsY}

\* no entry, one entry, or one entry followed by an entry "b"
RpEntryLists ==
    SeqsUpTo(RpEntries, 1)
    \cup {<<first, second>> : first \in RpEntries,
                              second \in {e \in RpEntries : /\ e.key = "b" /\ e.data.name = None
                                                            /\ e.data.counts_per_degree_y = None
                                                            /\ e.data.counts_per_degree_x = None}}

RpSettings ==
    {[fields |-> [target_rate_hz |-> rate, sender_max_step |-> None, deadzone_threshold |-> None,
                  reverse_tiny_ratio |-> None, strict_mode |-> None],
      unknown_key |-> FALSE] : rate \in {None, Some(StrValue)}}

RpFiles ==
    {[settings |-> settings, calibrations |-> entries, as_list |-> as_list,
      active_calibration |-> active] :
        settings \in RpSettings, entries \in RpEntryLists, as_list \in BOOLEAN,
        active \in {None, Some("b")}}

\* __init__: self._bundle = DEFAULT_BUNDLE, then load()
InitRepository ==
    /\ rp_file \in {None} \cup {Some(f) : f \in RpFiles}
    /\ rp_bundle = Some(DEFAULT_BUNDLE)
    /\ rp_pc = "init"
    /\ rp_upserts = <<>>
    /\ rp_last_call = None
    /\ CmIdle /\ SnIdle /\ TlIdle /\ FinIdle
    /\ StIdle /\ RcIdle /\ MfIdle /\ CfIdle
    /\ TrIdle /\ AcIdle /\ RnIdle /\ PbIdle

rp_others == <<tr_vars, ac_vars, rn_vars, pb_vars, st_vars, rc_vars, mf_vars, cf_vars,
               cm_vars, sn_vars, tl_vars, fin_vars>>

\* SettingsRepository.load
RepositoryLoad ==
    /\ rp_pc = "init"
    /\ IF rp_file = None
       THEN rp_bundle' = Some(DEFAULT_BUNDLE) /\ rp_pc' = "ready"
       ELSE LET loaded == LoadBundle(Get(rp_file))
            IN  IF loaded.raised # ""
                THEN rp_pc' = "raised" /\ UNCHANGED rp_bundle
                ELSE rp_bundle' = loaded.bundle /\ rp_pc' = "ready"
    /\ UNCHANGED <<rp_file, rp_upserts, rp_last_call, rp_others>>

\* SettingsRepository.upsert_calibration(calibration, make_active)
UpsertCalibration(name, counts_x, counts_y, make_active) ==
    /\ rp_pc = "ready"
    /\ Len(rp_upserts) < MaxUpserts
    /\ LET cal == SanitizeCalibration(name, counts_x, counts_y)
       IN  /\ rp_upserts' = Append(rp_upserts,
                                   [name |-> name, counts_x |-> counts_x, counts_y |-> counts_y,
                                    raised |-> cal.raised])
           /\ IF cal.raised # "" THEN UNCHANGED rp_bundle
              ELSE rp_bundle' =
                     Some([calibrations |-> DictSet(Get(rp_bundle).calibrations,
                                                    Get(cal.profile).name, Get(cal.profile)),
                           active_calibration |->
                               IF make_active THEN Get(cal.profile).name
                               ELSE Get(rp_bundle).active_calibration])
    /\ UNCHANGED <<rp_file, rp_pc, rp_last_call, rp_others>>

\* SettingsRepository.update_settings(**kwargs): from_dict may raise, the
\* calibrations and the active name are passed on as they are
UpdateSettings(kwargs) ==
    /\ rp_pc = "ready"
    /\ rp_last_call' = Some([op |-> "update_settings", name |-> "", known |-> TRUE,
                              raised |-> FromDict(kwargs).raised, changed |-> FALSE])
    /\ UNCHANGED <<rp_file, rp_bundle, rp_pc, rp_upserts, rp_others>>

\* SettingsRepository.set_active_calibration(name)
SetActiveCalibration(name) ==
    /\ rp_pc = "ready"
    /\ LET set == SetActive(Get(rp_bundle), name)
       IN  /\ rp_bundle' = Some(set.bundle)
           /\ rp_last_call' = Some([op |-> "set_active_calibration", name |-> name,
                                    known |-> name \in DOMAIN Get(rp_bundle).calibrations,
                                    raised |-> set.raised,
                                    changed |-> set.bundle # Get(rp_bundle)])
    /\ UNCHANGED <<rp_file, rp_pc, rp_upserts, rp_others>>

NextRepository ==
    \/ RepositoryLoad
    \/ \E name \in {"a", "c"}, counts_x \in {NumValue(0), NumValue(-20), NumValue(40), NullValue},
          counts_y \in {NumValue(0), NumValue(125)}, make_active \in BOOLEAN :
            UpsertCalibration(name, counts_x, counts_y, make_active)
    \/ \E kwargs \in RpSettings : UpdateSettings(kwargs)
    \/ \E name \in {"c", "default"} : SetActiveCalibration(name)

SpecRepository == InitRepository /\ [][NextRepository]_vars

\* ------------------------------------------------------------------------
\* camera.py: CameraModel.counts_to_angles followed by angles_to_counts
\* ------------------------------------------------------------------------
MaxConversions == 2      \* conversions made with one CameraModel

\* gains within the ranges sanitize keeps, counts per degree that divide the
\* drawn counts, so that every division below is exact
CmModels ==
    {CameraModel(CameraCalibrationProfile(counts, counts),
                 [MacroSettings(500, 1, 0, 30, 5, inv_x, inv_y)
                     EXCEPT !.camera_gain = camera_gain, !.gain_y = gain_y]) :
        counts \in {4, 5}, camera_gain \in {1, 2}, gain_y \in {1, 3}, inv_x \in BOOLEAN, inv_y \in BOOLEAN}

CmCountsX == {-40, 0, 20, 100}      \* -4.0, 0.0, 2.0, 10.0 counts
CmCountsY == {-60, 0, 20}

InitCameraModel ==
    /\ cm_model \in CmModels
    /\ cm_calls = <<>>
    /\ RpIdle /\ SnIdle /\ TlIdle /\ FinIdle
    /\ StIdle /\ RcIdle /\ MfIdle /\ CfIdle
    /\ TrIdle /\ AcIdle /\ RnIdle /\ PbIdle

\* angles = counts_to_angles(dx, dy, gain); counts = angles_to_counts(*angles, gain)
DoRoundTrip(dx, dy, gain) ==
    /\ Len(cm_calls) < MaxConversions
    /\ LET angles == CountsToAngles(cm_model, dx, dy, gain)
           counts == AnglesToCounts(cm_model, angles[1], angles[2], gain)
       IN  cm_calls' = Append(cm_calls, [dx |-> dx, dy |-> dy, gain |-> gain,
                                         angles |-> angles, counts |-> counts])
    /\ UNCHANGED <<cm_model, tr_vars, ac_vars, rn_vars, pb_vars, st_vars, rc_vars, mf_vars, cf_vars,
                   rp_vars, sn_vars, tl_vars, fin_vars>>

NextCameraModel == \E dx \in CmCountsX, dy \in CmCountsY, gain \in BOOLEAN : DoRoundTrip(dx, dy, gain)

SpecCameraModel == InitCameraModel /\ [][NextCameraModel]_vars

\* ------------------------------------------------------------------------
\* io.py: RelativeMouseSender.send on drawn deltas
\* ------------------------------------------------------------------------
MaxSends == 2            \* send calls on one sender

SnMaxSteps == {0, 1, 2, 3}           \* the constructor's max_step
SnDeltaX == {-7, -1, 0, 1, 4}
SnDeltaY == {-2, 0, 5}

InitSender ==
    /\ sn_max_step \in SnMaxSteps
    /\ sn_calls = <<>>
    /\ RpIdle /\ CmIdle /\ TlIdle /\ FinIdle
    /\ StIdle /\ RcIdle /\ MfIdle /\ CfIdle
    /\ TrIdle /\ AcIdle /\ RnIdle /\ PbIdle

\* sender.send(dx, dy): the relative moves handed to the backend
DoSend(dx, dy) ==
    /\ Len(sn_calls) < MaxSends
    /\ sn_calls' = Append(sn_calls, [dx |-> dx, dy |-> dy, moves |-> SenderSend(dx, dy, sn_max_step)])
    /\ UNCHANGED <<sn_max_step, tr_vars, ac_vars, rn_vars, pb_vars, st_vars, rc_vars, mf_vars, cf_vars,
                   rp_vars, cm_vars, tl_vars, fin_vars>>

NextSender == \E dx \in SnDeltaX, dy \in SnDeltaY : DoSend(dx, dy)

SpecSender == InitSender /\ [][NextSender]_vars

\* ------------------------------------------------------------------------
\* playback.py: TimelineController, the loop of sleep_until against the clock
\* ------------------------------------------------------------------------
MaxSleeps    == 2        \* sleep_until calls on one controller
MaxIdleClock == 4000     \* the clock value up to which time passes between calls

\* one iteration of the loop, reading the clock as now: break, or the
\* argument of time.sleep (0.002 s = 2000, 0.001 s = 1000, 0.00005 s = 50)
SleepStep_BreaksWithinOneMs(target, clock) ==
    LET remaining == target - clock
    IN  IF remaining <= 1000 THEN [break |-> TRUE, sleep |-> 0]
        ELSE IF remaining > 2000 THEN [break |-> FALSE, sleep |-> remaining - 1000]
        ELSE [break |-> FALSE, sleep |-> Max(remaining, 50)]

SleepStep(target, clock) ==
    LET remaining == target - clock
    IN  IF remaining <= 0 THEN [break |-> TRUE, sleep |-> 0]
        ELSE IF remaining > 2000 THEN [break |-> FALSE, sleep |-> remaining - 1000]
        ELSE [break |-> FALSE, sleep |-> Max(remaining, 50)]

TlTimestamps == {-1000, 0, 400, 1500, 5000}
TlOversleeps == {0, 700}     \* time.sleep returns after the time asked for, or later
TlStart      == 3000

InitTimeline ==
    /\ tl_base = None
    /\ tl_clock = TlStart
    /\ tl_pc = "idle"
    /\ tl_target = 0
    /\ tl_calls = <<>>
    /\ RpIdle /\ CmIdle /\ SnIdle /\ FinIdle
    /\ StIdle /\ RcIdle /\ MfIdle /\ CfIdle
    /\ TrIdle /\ AcIdle /\ RnIdle /\ PbIdle

tl_others == <<tr_vars, ac_vars, rn_vars, pb_vars, st_vars, rc_vars, mf_vars, cf_vars,
               rp_vars, cm_vars, sn_vars, fin_vars>>

\* time passes while the caller is between two calls
TlIdleTime(d) ==
    /\ tl_pc = "idle"
    /\ tl_clock < MaxIdleClock
    /\ tl_clock' = tl_clock + d
    /\ UNCHANGED <<tl_base, tl_pc, tl_target, tl_calls, tl_others>>

\* reset()
TlReset ==
    /\ tl_pc = "idle"
    /\ Len(tl_calls) < MaxSleeps
    /\ tl_base # Some(tl_clock)
    /\ tl_base' = Some(tl_clock)
    /\ UNCHANGED <<tl_clock, tl_pc, tl_target, tl_calls, tl_others>>

\* sleep_until(timestamp), lines 30-32
TlSleepUntil(timestamp) ==
    /\ tl_pc = "idle"
    /\ Len(tl_calls) < MaxSleeps
    /\ LET base_now == IF tl_base = None THEN tl_clock ELSE Get(tl_base)
       IN  /\ tl_base' = Some(base_now)
           /\ tl_target' = base_now + Max(0, timestamp)
           /\ tl_calls' = Append(tl_calls, [timestamp |-> timestamp, base |-> base_now,
                                            sleeps |-> 0, returned_at |-> None])
    /\ tl_pc' = "loop"
    /\ UNCHANGED <<tl_clock, tl_others>>

\* one iteration of the while loop, lines 33-41
TlLoop(oversleep) ==
    /\ tl_pc = "loop"
    /\ LET step == SleepStep(tl_target, tl_clock)
           call == Len(tl_calls)
       IN  IF step.break
           THEN /\ tl_pc' = "idle"
                /\ tl_calls' = [tl_calls EXCEPT ![call].returned_at = Some(tl_clock)]
                /\ UNCHANGED tl_clock
           ELSE /\ tl_clock' = tl_clock + step.sleep + oversleep
                /\ tl_calls' = [tl_calls EXCEPT ![call].sleeps = @ + 1]
                /\ UNCHANGED tl_pc
    /\ UNCHANGED <<tl_base, tl_target, tl_others>>

TlRun == \E oversleep \in TlOversleeps : TlLoop(oversleep)

NextTimeline ==
    \/ \E d \in {300, 2500} : TlIdleTime(d)
    \/ TlReset
    \/ \E timestamp \in TlTimestamps : TlSleepUntil(timestamp)
    \/ TlRun

SpecTimeline == InitTimeline /\ [][NextTimeline]_vars

\* the calling thread runs: a loop iteration that can be taken is taken
SpecTimelineFair == SpecTimeline /\ WF_vars(TlRun)

\* ------------------------------------------------------------------------
\* playback.py: drain_until and finalize calls on one CameraPlaybackRunner
\* ------------------------------------------------------------------------
MaxDrCalls == 3          \* drain_until and finalize calls on the runner

\* CumulativeSeries.__init__ where the list passed in is sorted in place
SamplesAfterSeries_SortedInPlace(samples) == SortByTimestamp(samples)

\* CumulativeSeries.__init__, line 127: sorted() builds a new list, the list
\* passed in is the same afterwards
SamplesAfterSeries(samples) == samples

\* the segment object after CameraTrajectory(segment, calibration) was built
\* from it (camera.py 171-175)
SegmentAfterTrajectory(segment) ==
    [segment EXCEPT !.samples = SamplesAfterSeries(@)]

DrSamples == {CameraSample(t, dx, 0, dx * 10, 0) : t \in {1000, 3000}, dx \in {-2, 3}}
DrSegments == {CameraSegment(0, 1, 0, r, ss) : r \in {0, 4000}, ss \in SeqsUpTo(DrSamples, 2)}
DrSettings == {MacroSettings(500, 1, 0, 30, 5, FALSE, FALSE),
               [MacroSettings(500, 8, 0, 30, 5, TRUE, FALSE) EXCEPT !.gain_x = 2]}
DrCalibrations == {CameraCalibrationProfile(10, 10), CameraCalibrationProfile(3, 3)}
DrTargets == {2000, 4000}

InitRunnerCalls ==
    /\ dr_segment \in DrSegments
    /\ dr_settings \in DrSettings
    /\ dr_runner = None /\ dr_call = DrNoCall /\ dr_sent = <<>> /\ dr_returns = <<>>
    /\ RpIdle /\ CmIdle /\ SnIdle /\ TlIdle /\ CtIdle
    /\ StIdle /\ RcIdle /\ MfIdle /\ CfIdle
    /\ TrIdle /\ AcIdle /\ RnIdle /\ PbIdle

dr_others == <<tr_vars, ac_vars, rn_vars, pb_vars, st_vars, rc_vars, mf_vars, cf_vars,
               rp_vars, cm_vars, sn_vars, tl_vars, ct_vars>>

\* CameraPlaybackRunner(segment, settings, calibration, sender, index)
DrConstruct(calibration) ==
    /\ dr_runner = None
    /\ dr_runner' = Some(CameraPlaybackRunner(dr_segment, dr_settings, calibration, 0))
    /\ dr_segment' = SegmentAfterTrajectory(dr_segment)
    /\ UNCHANGED <<dr_settings, dr_call, dr_sent, dr_returns, dr_others>>

\* drain_until(target_timestamp, timeline, stop_event) is called; stop: the
\* event passed is already set
DrDrainUntil(target, stop) ==
    /\ dr_runner # None /\ dr_call.pc = "idle"
    /\ Len(dr_returns) < MaxDrCalls
    /\ dr_call' = [pc |-> "loop", kind |-> "drain_until", target |-> target, stop |-> stop,
                   step |-> 0, sent |-> 0, completed_before |-> Get(dr_runner).completed]
    /\ UNCHANGED <<dr_segment, dr_settings, dr_runner, dr_sent, dr_returns, dr_others>>

\* finalize(timeline, stop_event) is called: lines 144-146
DrFinalize(stop) ==
    /\ dr_runner # None /\ dr_call.pc = "idle"
    /\ Len(dr_returns) < MaxDrCalls
    /\ IF Get(dr_runner).completed
       THEN /\ dr_returns' = Append(dr_returns, [kind |-> "finalize", completed_before |-> TRUE,
                                                 sent |-> 0, result |-> None])
            /\ UNCHANGED dr_call
       ELSE /\ dr_call' = [pc |-> "loop", kind |-> "finalize",
                           target |-> Get(dr_runner).segment.release_timestamp, stop |-> stop,
                           step |-> 0, sent |-> 0, completed_before |-> FALSE]
            /\ UNCHANGED dr_returns
    /\ UNCHANGED <<dr_segment, dr_settings, dr_runner, dr_sent, dr_others>>

\* another thread sets the stop event of the call in progress
DrSetStop ==
    /\ dr_call.pc \in {"loop", "send"} /\ ~dr_call.stop
    /\ dr_call' = [dr_call EXCEPT !.stop = TRUE]
    /\ UNCHANGED <<dr_segment, dr_settings, dr_runner, dr_sent, dr_returns, dr_others>>

\* drain_until, lines 126-132: the head of the while loop
DrLoop ==
    /\ dr_call.pc = "loop"
    /\ LET runner == Get(dr_runner)
       IN  dr_call' =
              IF \/ runner.cursor >= Len(runner.actions)
                 \/ runner.actions[runner.cursor + 1].timestamp > dr_call.target + Eps
                 \/ dr_call.stop
              THEN [dr_call EXCEPT !.pc = "return"]
              ELSE [dr_call EXCEPT !.pc = "send", !.step = 1]
    /\ UNCHANGED <<dr_segment, dr_settings, dr_runner, dr_sent, dr_returns, dr_others>>

\* drain_until, lines 133-137: one round of the for loop over action.steps,
\* and self._cursor += 1 after the last one
DrStep ==
    /\ dr_call.pc = "send"
    /\ LET runner == Get(dr_runner)
           action == runner.actions[runner.cursor + 1]
       IN  IF dr_call.step > Len(action.steps)
           THEN /\ dr_runner' = Some([runner EXCEPT !.cursor = @ + 1])
                /\ dr_call' = [dr_call EXCEPT !.pc = "loop"]
                /\ UNCHANGED dr_sent
           ELSE IF dr_call.stop
           THEN /\ dr_call' = [dr_call EXCEPT !.pc = "return"]
                /\ UNCHANGED <<dr_runner, dr_sent>>
           ELSE /\ dr_sent' = Append(dr_sent, [action |-> runner.cursor + 1, step |-> dr_call.step])
                /\ dr_call' = [dr_call EXCEPT !.step = @ + 1, !.sent = @ + 1]
                /\ UNCHANGED dr_runner
    /\ UNCHANGED <<dr_segment, dr_settings, dr_returns, dr_others>>

\* drain_until returns; finalize goes on with lines 147-155
DrReturn ==
    /\ dr_call.pc = "return"
    /\ LET runner == Get(dr_runner)
       IN  IF dr_call.kind = "finalize"
           THEN /\ dr_runner' = Some([runner EXCEPT !.completed = TRUE])
                /\ dr_segment' = SegmentAfterTrajectory(dr_segment)
                /\ dr_returns' = Append(dr_returns,
                       [kind |-> "finalize", completed_before |-> FALSE, sent |-> dr_call.sent,
                        result |-> Some(SummarizePlayback(runner.segment, runner.diag_samples,
                                                          runner.calibration, runner.index))])
           ELSE /\ dr_returns' = Append(dr_returns,
                       [kind |-> "drain_until", completed_before |-> dr_call.completed_before,
                        sent |-> dr_call.sent, result |-> None])
                /\ UNCHANGED <<dr_runner, dr_segment>>
    /\ dr_call' = DrNoCall
    /\ UNCHANGED <<dr_settings, dr_sent, dr_others>>

NextRunnerCalls ==
    \/ \E calibration \in DrCalibrations : DrConstruct(calibration)
    \/ \E target \in DrTargets, stop \in BOOLEAN : DrDrainUntil(target, stop)
    \/ \E stop \in BOOLEAN : DrFinalize(stop)
    \/ DrSetStop
    \/ DrLoop
    \/ DrStep
    \/ DrReturn

SpecRunnerCalls == InitRunnerCalls /\ [][NextRunnerCalls]_vars

\* ------------------------------------------------------------------------
\* ui.py: MacroEngineController.  Its methods run on the UI thread, one at a
\* time; the workers they start are threads of their own.
\* ------------------------------------------------------------------------
MaxSessions == 2         \* start_recording calls that are accepted
MaxWorkers  == 3         \* worker threads started by stop_recording and play_macro

InitController ==
    /\ ct_mode = "idle" /\ ct_recorder = None /\ ct_sessions = <<>>
    /\ ct_stop_event = None /\ ct_events = <<>> /\ ct_workers = <<>>
    /\ RpIdle /\ CmIdle /\ SnIdle /\ TlIdle /\ DrIdle
    /\ StIdle /\ RcIdle /\ MfIdle /\ CfIdle
    /\ TrIdle /\ AcIdle /\ RnIdle /\ PbIdle

ct_others == <<tr_vars, ac_vars, rn_vars, pb_vars, st_vars, rc_vars, mf_vars, cf_vars,
               rp_vars, cm_vars, sn_vars, tl_vars, dr_vars>>

\* start_recording, lines 46-54 (a call in another mode only logs)
StartRecording ==
    /\ ct_mode = "idle"
    /\ Len(ct_sessions) < MaxSessions
    /\ ct_sessions' = Append(ct_sessions, [running |-> TRUE, mode_at_start |-> ct_mode])
    /\ ct_recorder' = Some(Len(ct_sessions) + 1)
    /\ ct_mode' = "recording"
    /\ UNCHANGED <<ct_stop_event, ct_events, ct_workers, ct_others>>

\* stop_recording, lines 56-59 and 80: the worker thread is started
CtStopRecording ==
    /\ ct_mode = "recording" /\ ct_recorder # None
    /\ Len(ct_workers) < MaxWorkers
    /\ ct_workers' = Append(ct_workers, [kind |-> "stop", pc |-> "spawned", returns |-> FALSE,
                                         session |-> 0, mode_at_accept |-> ct_mode])
    /\ UNCHANGED <<ct_mode, ct_recorder, ct_sessions, ct_stop_event, ct_events, ct_others>>

\* stop_recording worker, lines 62-66: self.recorder.stop() is called.  It
\* raises when self.recorder is None, when the session is not running
\* (recording.py 71-72), or, raised, for a reason of its own
WorkerStop(w, raised) ==
    /\ ct_workers[w].kind = "stop" /\ ct_workers[w].pc = "spawned"
    /\ IF ct_recorder = None \/ raised
       THEN ct_workers' = [ct_workers EXCEPT ![w].pc = "finally", ![w].returns = TRUE]
       ELSE IF ~ct_sessions[Get(ct_recorder)].running
       THEN ct_workers' = [ct_workers EXCEPT ![w].pc = "finally", ![w].returns = TRUE]
       ELSE ct_workers' = [ct_workers EXCEPT ![w].pc = "stopping", ![w].session = Get(ct_recorder)]
    /\ UNCHANGED <<ct_mode, ct_recorder, ct_sessions, ct_stop_event, ct_events, ct_others>>

\* RecordingSession.stop, recording.py 73-101: the listeners are joined, then
\* self._running = False and the recording is returned
WorkerStopped(w) ==
    /\ ct_workers[w].kind = "stop" /\ ct_workers[w].pc = "stopping"
    /\ ct_sessions' = [ct_sessions EXCEPT ![ct_workers[w].session].running = FALSE]
    /\ ct_workers' = [ct_workers EXCEPT ![w].pc = "finally"]
    /\ UNCHANGED <<ct_mode, ct_recorder, ct_stop_event, ct_events, ct_others>>

\* stop_recording worker, lines 67-68: finally self.recorder = None, and the
\* return of the except clause
WorkerFinally(w) ==
    /\ ct_workers[w].kind = "stop" /\ ct_workers[w].pc = "finally"
    /\ ct_recorder' = None
    /\ ct_workers' = [ct_workers EXCEPT ![w].pc = IF ct_workers[w].returns THEN "done" ELSE "save"]
    /\ UNCHANGED <<ct_mode, ct_sessions, ct_stop_event, ct_events, ct_others>>

\* stop_recording worker, lines 69-76: storage.save, whose exception is caught
WorkerSave(w) ==
    /\ ct_workers[w].kind = "stop" /\ ct_workers[w].pc = "save"
    /\ ct_workers' = [ct_workers EXCEPT ![w].pc = "set_idle"]
    /\ UNCHANGED <<ct_mode, ct_recorder, ct_sessions, ct_stop_event, ct_events, ct_others>>

\* play_macro, lines 82-97 and 113-114 (a call in another mode, or for a
\* macro that is not found, only logs)
CtPlayMacro ==
    /\ ct_mode = "idle"
    /\ Len(ct_workers) < MaxWorkers
    /\ ct_events' = Append(ct_events, FALSE)
    /\ ct_stop_event' = Some(Len(ct_events) + 1)
    /\ ct_mode' = "playback"
    /\ ct_workers' = Append(ct_workers, [kind |-> "play", pc |-> "spawned", returns |-> FALSE,
                                         session |-> 0, mode_at_accept |-> ct_mode])
    /\ UNCHANGED <<ct_recorder, ct_sessions, ct_others>>

\* stop_playback, lines 116-121
CtStopPlayback ==
    /\ ct_mode = "playback" /\ ct_stop_event # None
    /\ ~ct_events[Get(ct_stop_event)]
    /\ ct_events' = [ct_events EXCEPT ![Get(ct_stop_event)] = TRUE]
    /\ UNCHANGED <<ct_mode, ct_recorder, ct_sessions, ct_stop_event, ct_workers, ct_others>>

\* play_macro worker, lines 99-107: session.play returns (finished or
\* cancelled) or raises; either way the finally clause is next
WorkerPlay(w) ==
    /\ ct_workers[w].kind = "play" /\ ct_workers[w].pc = "spawned"
    /\ ct_workers' = [ct_workers EXCEPT ![w].pc = "set_idle"]
    /\ UNCHANGED <<ct_mode, ct_recorder, ct_sessions, ct_stop_event, ct_events, ct_others>>

\* self.mode = "idle": line 77 of the stop_recording worker, line 109 of the
\* play_macro worker
WorkerSetIdle(w) ==
    /\ ct_workers[w].pc = "set_idle"
    /\ ct_mode' = "idle"
    /\ ct_workers' = [ct_workers EXCEPT ![w].pc = IF ct_workers[w].kind = "play" THEN "clear"
                                                 ELSE "done"]
    /\ UNCHANGED <<ct_recorder, ct_sessions, ct_stop_event, ct_events, ct_others>>

\* play_macro worker, lines 110-112: self.playback_stop_event = None
WorkerClear(w) ==
    /\ ct_workers[w].kind = "play" /\ ct_workers[w].pc = "clear"
    /\ ct_stop_event' = None
    /\ ct_workers' = [ct_workers EXCEPT ![w].pc = "done"]
    /\ UNCHANGED <<ct_mode, ct_recorder, ct_sessions, ct_events, ct_others>>

WorkerStep ==
    \E w \in 1..Len(ct_workers) :
        \/ \E raised \in BOOLEAN : WorkerStop(w, raised)
        \/ WorkerStopped(w)
        \/ WorkerFinally(w)
        \/ WorkerSave(w)
        \/ WorkerPlay(w)
        \/ WorkerSetIdle(w)
        \/ WorkerClear(w)

NextController ==
    \/ StartRecording
    \/ CtStopRecording
    \/ CtPlayMacro
    \/ CtStopPlayback
    \/ WorkerStep

SpecController == InitController /\ [][NextController]_vars

\* every started thread keeps running until it ends
SpecControllerFair == SpecController /\ WF_vars(WorkerStep)

\* ========================================================================
\* Claims
\* ========================================================================
ResampledSum(samples) ==
    <<SumSeq(SeqMap(LAMBDA sm : sm.angle_dx, samples)),
      SumSeq(SeqMap(LAMBDA sm : sm.angle_dy, samples))>>

Timeline(runner) == SeqMap(LAMBDA a : [timestamp |-> a.timestamp, steps |-> a.steps], runner.actions)

C1_ResamplePreservesSum_AnySegment ==
    (tr_resampled # None /\ tr_segment.samples # <<>>)
        => ResampledSum(Get(tr_resampled)) = SumAngles(tr_segment)

\* C1 (amended): the same, for segments of positive duration
\* (release_timestamp > press_timestamp); otherwise resample returns nothing.
C1_ResamplePreservesSum ==
    /\ (tr_resampled # None /\ tr_segment.samples # <<>>
          /\ tr_segment.release_timestamp > tr_segment.press_timestamp)
        => ResampledSum(Get(tr_resampled)) = SumAngles(tr_segment)
    /\ (tr_resampled # None /\ tr_segment.release_timestamp <= tr_segment.press_timestamp)
        => Get(tr_resampled) = <<>>

\* C1 witness: samples at 2000 and 3500 inside a segment released at 9000 are
\* resampled at 500 Hz into four ticks; the first tick (3000) falls between the
\* two samples and carries an interpolated part of the rotation.
C1_Witness ==
    /\ tr_resampled # None
    /\ tr_rate = 500
    /\ tr_segment.release_timestamp = 9000
    /\ Len(tr_segment.samples) = 2
    /\ tr_segment.samples[1].timestamp = 2000
    /\ tr_segment.samples[2].timestamp = 3500
    /\ tr_segment.samples[1].angle_dx = 12
    /\ tr_segment.samples[2].angle_dx = 12
    /\ Len(Get(tr_resampled)) = 4
    /\ Get(tr_resampled)[1].timestamp = 3000
    /\ Get(tr_resampled)[1].angle_dx = 20
    /\ Get(tr_resampled)[2].angle_dx = 4
    /\ ResampledSum(Get(tr_resampled)) = SumAngles(tr_segment)

AcFedX == SumSeq(SeqMap(LAMBDA f : f[1], ac_feeds))
AcFedY == SumSeq(SeqMap(LAMBDA f : f[2], ac_feeds))
AcOutX == StepsSumX(ac_emitted) + StepsSumX(Get(ac_flushed))
AcOutY == StepsSumY(ac_emitted) + StepsSumY(Get(ac_flushed))

\* C2: after any sequence of feed calls followed by one flush, the per-axis sum
\* of the emitted steps plus the flushed step is within one unit of
\* round(total fed), however the total was split over the feed calls; and
\* feed(3.6, 0) with max_step = 2 emits steps summing to 3, the flush then 1.
C2_AccumulatorTotal ==
    ac_flushed # None =>
        /\ Abs(AcOutX - PyRound(AcFedX)) <= 1
        /\ Abs(AcOutY - PyRound(AcFedY)) <= 1
        /\ (ac_feeds = <<<<36, 0>>>> /\ ac_acc.max_step = 2) =>
              /\ ac_emitted = <<<<2, 0>>, <<1, 0>>>>
              /\ Get(ac_flushed) = <<<<1, 0>>>>

\* C2 witness: the total 3.6 was fed in three calls and flushed, and the output is 4
C2_Witness ==
    /\ ac_flushed # None
    /\ ac_feeds = <<<<6, 0>>, <<12, 25>>, <<18, 0>>>>
    /\ ac_acc.max_step = 1
    /\ ac_emitted = <<<<1, 1>>, <<0, 1>>, <<1, 0>>, <<1, 0>>>>
    /\ Get(ac_flushed) = <<<<1, 0>>>>
    /\ AcOutX = 4 /\ AcOutX = PyRound(36)
    /\ AcOutY = 2 /\ AcOutY = PyRound(25)

\* ------------------------------------------------------------------------
\* Claims about PlaybackSession.play and CameraPlaybackRunner.drain_until
\* ------------------------------------------------------------------------
SinkEntries == {sink[i] : i \in 1..Len(sink)}
DispatchEntries == {dispatch_log[i] : i \in 1..Len(dispatch_log)}
SentAfterStop == {i \in 1..Len(sink) : sink[i].after_stop}

\* C4 as stated: once the cancellation flag is set, drain_until sends no
\* further step to the sink.
C4_NoSendOnceStopSet ==
    \A e \in SinkEntries : ~e.after_stop

\* C4: every send made by drain_until follows a check that found the flag
\* unset, drain_until returns at the first check that finds the flag set, and
\* so at most one step (the one whose check preceded the setting of the flag)
\* is sent after the flag is set.
C4_DrainUntilCancellation ==
    /\ \A e \in SinkEntries : ~e.after_seen
    /\ h_runs.stop_seen => pc \notin {"drain_step", "drain_send"}
    /\ Cardinality(SentAfterStop) <= 1

\* C4 witness: drain_until returns because a check found the flag set, with a
\* due action still unsent, after the one step sent since the flag was set
C4_Witness ==
    /\ pc = "drain_ret"
    /\ h_runs.stop_seen
    /\ Get(active_runner).cursor < Len(Get(active_runner).actions)
    /\ CurrentAction.timestamp <= drain.target + Eps
    /\ Cardinality(SentAfterStop) = 1
    /\ Len(sink) >= 2

\* C5: once the cancellation flag is set, play dispatches no further
\* discrete event to the mouse or keyboard controllers.
C5_NoDispatchOnceStopSet ==
    \A e \in DispatchEntries : e.effect # "none" => ~e.after_stop

\* the actions of the runner with this serial number that sent a step
SentActions(serial) == {e.action : e \in {x \in SinkEntries : x.runner = serial}}

SentSteps(serial, a) == {i \in 1..Len(sink) : sink[i].runner = serial /\ sink[i].action = a}

C7_EventsInOrderOnTime ==
    ~stop_event =>
        /\ \A i \in 1..Len(dispatch_log) :
              /\ dispatch_log[i].idx = i - 1
              /\ dispatch_log[i].at >= base + recording.events[i].timestamp
        /\ Len(dispatch_log) \in {idx, idx + 1}
        /\ Len(dispatch_log) <= Len(recording.events)
        /\ pc \in {"final", "done"} => Len(dispatch_log) = Len(recording.events)

\* C7 witness: an uncancelled play of three events or more has returned, and
\* one of the events was dispatched late, behind camera steps
C7_Witness ==
    /\ pc = "done" /\ ~stop_event
    /\ Len(dispatch_log) >= 3
    /\ \E i \in 1..Len(dispatch_log) :
          dispatch_log[i].at > base + recording.events[i].timestamp

MatchingPresses ==
    {i \in 0..(Len(recording.events) - 1) :
        /\ IsRight(recording.events[i + 1], "mouse_press")
        /\ \E k \in 1..Len(recording.camera_segments) :
              recording.camera_segments[k].press_event_index = i}

C9_DiagnosticsFromSentSteps ==
    \A k \in 1..Len(diag_objects) :
        LET serial == h_runs.finalized[k]
            sent   == {x \in SinkEntries : x.runner = serial}
            sent_x == SumSeq([i \in 1..Len(sink) |-> IF sink[i].runner = serial THEN sink[i].x ELSE 0])
        IN  /\ diag_objects[k].sent_samples = Cardinality(SentActions(serial))
            /\ sent = {} => diag_objects[k].playback_sum_deg = <<0, 0>>
            /\ sent_x = 0 => diag_objects[k].playback_sum_deg[1] = 0

\* C10: a mouse_move event dispatched while a runner is active does not set
\* the pointer position.
C10_NoMoveWhileRunnerActive ==
    \A e \in DispatchEntries : e.runner_active => e.effect # "position"

\* ------------------------------------------------------------------------
\* Claims about RecordingSession
\* ------------------------------------------------------------------------
\* the segments closed so far: the session's list, or the returned recording's
RcClosed == IF rc_returned # None THEN Get(rc_returned).camera_segments ELSE rc_segments
RcLogged == IF rc_returned # None THEN Get(rc_returned).events ELSE rc_events

\* C11: a right-button press received while a segment is open leaves the open
\* segment as it is (press event index, press timestamp, samples so far) and
\* opens no new segment.
C11_SecondPressNoOp ==
    [][(/\ rc_state # None
        /\ Len(rc_events') > Len(rc_events)
        /\ IsRight(rc_events'[Len(rc_events) + 1], "mouse_press"))
       => rc_state' = rc_state /\ rc_segments' = rc_segments]_vars

IsEventIndex(events, index, type) ==
    /\ index \in 0..(Len(events) - 1)
    /\ IsRight(events[index + 1], type)

\* C12: in every recording returned by stop, each segment's press_event_index
\* is the index of a right-button mouse_press event and its release_event_index
\* the index of a right-button mouse_release event of the recording.
C12_IndicesReferToRightButtonEvents ==
    rc_returned # None =>
        \A k \in 1..Len(RcClosed) :
            /\ IsEventIndex(RcLogged, RcClosed[k].press_event_index, "mouse_press")
            /\ IsEventIndex(RcLogged, RcClosed[k].release_event_index, "mouse_release")

C14_SamplesWithinSegment ==
    \A k \in 1..Len(RcClosed) :
        LET segment == RcClosed[k]
        IN  /\ segment.release_timestamp >= segment.press_timestamp
            /\ \A i, j \in 1..Len(segment.samples) :
                  i < j => segment.samples[i].timestamp <= segment.samples[j].timestamp
            /\ \A i \in 1..Len(segment.samples) :
                  /\ segment.press_timestamp <= segment.samples[i].timestamp
                  /\ segment.samples[i].timestamp <= segment.release_timestamp

\* C15: once a segment is closed and appended to the segment list, no later
\* raw packet, pointer move or click changes it; stop hands the list over
\* unchanged, and the returned recording does not change afterwards.
C15_ClosedSegmentsImmutable ==
    [][/\ \A i \in 1..Len(RcClosed) : Len(RcClosed') >= i /\ RcClosed'[i] = RcClosed[i]
       /\ rc_returned # None => rc_returned' = rc_returned]_vars

\* C15 witness: after a segment with a sample was closed, a second segment was
\* opened and a raw packet was appended to it
C15_Witness ==
    /\ rc_raw
    /\ Len(rc_segments) = 1 /\ rc_segments[1].samples # <<>>
    /\ rc_state # None /\ Get(rc_state).samples # <<>>

\* ------------------------------------------------------------------------
\* Claims about MotionFilter.apply
\* ------------------------------------------------------------------------
MfCallSet == {mf_calls[i] : i \in 1..Len(mf_calls)}

\* hypot(dx, dy) < deadzone_deg, deadzone_deg = deadzone_threshold / counts_per_degree_x
MfBelow(call) ==
    MagSq(call.dx, call.dy) * mf_calibration.counts_per_degree_x * mf_calibration.counts_per_degree_x
        < mf_settings.deadzone_threshold * mf_settings.deadzone_threshold

\* the call is within reverse_window of the most recent accepted sample and
\* its magnitude is below reverse_tiny_ratio times that sample's
MfTinyInWindow(call) ==
    /\ call.last # None
    /\ (call.timestamp - Get(call.last)[1]) * 1000 <= mf_settings.reverse_window_ms * TicksPerSecond
    /\ MagSq(call.dx, call.dy) * Scale * Scale
          < MagSq(Get(call.last)[2], Get(call.last)[3])
              * mf_settings.reverse_tiny_ratio * mf_settings.reverse_tiny_ratio

\* the sample opposes the accepted sample on an axis on which that one moved
MfOpposesMovingAxis(call) ==
    \/ call.dx * Get(call.last)[2] < 0
    \/ call.dy * Get(call.last)[3] < 0

\* on each axis the sample either does not move or moves the way the accepted
\* sample moved
MfAgreesOnAxes(call) ==
    /\ call.dx = 0 \/ call.dx * Get(call.last)[2] > 0
    /\ call.dy = 0 \/ call.dy * Get(call.last)[3] > 0

\* C17: with strict_mode = true, apply returns every non-zero input unchanged.
C17_StrictModeIdentity ==
    mf_settings.strict_mode =>
        \A call \in MfCallSet :
            <<call.dx, call.dy>> # <<0, 0>> => call.out = <<call.dx, call.dy>>

\* C18: apply returns (0,0) for a sample whose magnitude is below
\* deadzone_deg, and returns a sample at or above deadzone_deg unchanged when
\* no reversal condition applies (no accepted sample yet, or outside the
\* window, or not tiny, or agreeing with the accepted sample on its axes);
\* with deadzone_deg = 0.5, magnitude 0.2 is zeroed and 0.6 passes.
C18_Deadzone ==
    \A call \in MfCallSet :
        /\ MfBelow(call) => call.out = <<0, 0>>
        /\ (~MfBelow(call) /\ (~MfTinyInWindow(call) \/ MfAgreesOnAxes(call)))
              => call.out = <<call.dx, call.dy>>
        /\ (mf_settings.deadzone_threshold = 25 /\ <<call.dx, call.dy>> = <<2, 0>>)
              => call.out = <<0, 0>>
        /\ (mf_settings.deadzone_threshold = 25 /\ <<call.dx, call.dy>> = <<6, 0>>
            /\ ~MfTinyInWindow(call))
              => call.out = <<6, 0>>

\* C18 witness: with deadzone_deg = 0.5 a sample of magnitude 0.2 was zeroed
\* and a sample of magnitude 0.6 then passed
C18_Witness ==
    /\ mf_settings.deadzone_threshold = 25 /\ mf_calibration.counts_per_degree_x = 5
    /\ Len(mf_calls) = 2
    /\ <<mf_calls[1].dx, mf_calls[1].dy>> = <<2, 0>> /\ mf_calls[1].out = <<0, 0>>
    /\ <<mf_calls[2].dx, mf_calls[2].dy>> = <<6, 0>> /\ mf_calls[2].out = <<6, 0>>

\* C19: a sample at or above the deadzone is suppressed as a reversal only if
\* it is within reverse_window of the most recent accepted sample, its
\* magnitude is below reverse_tiny_ratio times that sample's, and its sign
\* opposes that sample on an axis on which that sample was moving; in every
\* other case it is returned unchanged.
C19_ReversalOnlyOnMovingAxis ==
    \A call \in MfCallSet :
        ~MfBelow(call) =>
            /\ call.out \in {<<call.dx, call.dy>>, <<0, 0>>}
            /\ call.out # <<call.dx, call.dy>> =>
                  MfTinyInWindow(call) /\ MfOpposesMovingAxis(call)

\* C20: MacroSettings.from_dict accepts every input mapping without raising,
\* and every field of the result lies in its valid range: target_rate_hz in
\* [90, 960], sender_max_step >= 1, reverse_tiny_ratio in [0, 1],
\* deadzone_threshold >= 0.
C20_FromDictNeverRaises ==
    cf_result # None =>
        /\ Get(cf_result).raised = ""
        /\ LET settings == Get(Get(cf_result).settings)
           IN  /\ settings.target_rate_hz >= 90 * Scale /\ settings.target_rate_hz <= 960 * Scale
               /\ settings.sender_max_step >= 1
               /\ settings.reverse_tiny_ratio >= 0 /\ settings.reverse_tiny_ratio <= 1 * Scale
               /\ settings.deadzone_threshold >= 0

\* a segment of the file whose press index is not the index of a right-button
\* press of the file, or whose release index is not that of a right-button
\* release
CorruptFile(payload) ==
    LET rec == RecordingFromDict(payload)
    IN  \E k \in 1..Len(rec.camera_segments) :
            \/ ~IsEventIndex(rec.events, rec.camera_segments[k].press_event_index, "mouse_press")
            \/ ~IsEventIndex(rec.events, rec.camera_segments[k].release_event_index, "mouse_release")

\* C16: loading a recording in which a segment's press or release index does
\* not refer to an existing matching event fails at load time, and no event
\* and no camera step of that recording is played back.
C16_CorruptRejected ==
    (st_file # None /\ CorruptFile(Get(st_file))) =>
        /\ pc \in {"load", "load_error"}
        /\ dispatch_log = <<>>
        /\ sink = <<>>

\* C21: after SettingsRepository.load and after every upsert_calibration,
\* every calibration profile the repository holds has counts_per_degree_x > 0
\* and counts_per_degree_y > 0.
C21_CalibrationsPositive ==
    rp_bundle # None =>
        \A name \in DOMAIN Get(rp_bundle).calibrations :
            /\ Get(rp_bundle).calibrations[name].counts_per_degree_x > 0
            /\ Get(rp_bundle).calibrations[name].counts_per_degree_y > 0

\* a file with a profile of zero counts per degree was loaded and a profile of
\* negative counts per degree was upserted, and the repository holds both
C21_Witness ==
    /\ rp_pc = "ready" /\ rp_file # None
    /\ \E i \in 1..Len(Get(rp_file).calibrations) :
          Get(rp_file).calibrations[i].data.counts_per_degree_x = Some(NumValue(0))
    /\ Len(rp_upserts) = 1 /\ rp_upserts[1].counts_x = NumValue(-20) /\ rp_upserts[1].raised = ""
    /\ "c" \in DOMAIN Get(rp_bundle).calibrations
    /\ Cardinality(DOMAIN Get(rp_bundle).calibrations) >= 2

\* C22: angles_to_counts is the inverse of counts_to_angles: for every
\* settings and calibration, every (dx, dy) and either value of the gain flag,
\* angles_to_counts(counts_to_angles(dx, dy, g), g) = (dx, dy).
C22_AnglesToCountsInverts ==
    \A i \in 1..Len(cm_calls) : cm_calls[i].counts = <<cm_calls[i].dx, cm_calls[i].dy>>

\* C23: for every segment, compare_with applied to the trajectory's own
\* samples reports max_error_deg, mean_error_deg and final_error_deg all
\* exactly 0, also when samples share a timestamp or lie outside
\* [press, release].  (The errors are magnitudes: their mean is 0 exactly when
\* their maximum is.)
C23_CompareWithItself ==
    tr_compared # None =>
        /\ Get(tr_compared).max_error_sq = 0
        /\ Get(tr_compared).final_error_sq = 0

\* a sample after the release followed by a sample before the press (both
\* outside the segment, out of order) were compared with themselves
C23_Witness ==
    /\ tr_compared # None
    /\ Len(tr_segment.samples) = 2
    /\ tr_segment.release_timestamp = 4000
    /\ tr_segment.samples[1].timestamp = 9500 /\ tr_segment.samples[2].timestamp = 0
    /\ tr_segment.samples[1].angle_dx = 12 /\ tr_segment.samples[2].angle_dx = -5
    /\ Get(tr_compared).max_error_sq = 0

\* C24: send(dx, dy) returns having dispatched relative moves whose per-axis
\* sums are exactly (dx, dy), each move of per-axis magnitude at most
\* max_step (at least 1), and nothing for (0, 0).
C24_SendExact ==
    \A i \in 1..Len(sn_calls) :
        LET call == sn_calls[i]
        IN  /\ StepsSumX(call.moves) = call.dx
            /\ StepsSumY(call.moves) = call.dy
            /\ \A k \in 1..Len(call.moves) :
                  /\ Abs(call.moves[k][1]) <= Max(1, sn_max_step)
                  /\ Abs(call.moves[k][2]) <= Max(1, sn_max_step)
                  /\ call.moves[k] # <<0, 0>>
            /\ (call.dx = 0 /\ call.dy = 0) => call.moves = <<>>

\* send(-7, 5) with max_step 2 was split into four moves, send(0, 0) into none
C24_Witness ==
    /\ sn_max_step = 2
    /\ Len(sn_calls) = 2
    /\ sn_calls[1].dx = -7 /\ sn_calls[1].dy = 5
    /\ sn_calls[1].moves = <<<<-2, 2>>, <<-2, 2>>, <<-2, 1>>, <<-1, 0>>>>
    /\ sn_calls[2].dx = 0 /\ sn_calls[2].dy = 0 /\ sn_calls[2].moves = <<>>

\* C25: when the injection sink fails on a step during drain_until, the step
\* is skipped and the rest of the segment's timeline abandoned, but
\* PlaybackSession.play goes on and returns a PlaybackResult with the
\* diagnostics of what was sent: play never ends with the sink's error.
C25_SinkFailureContained == pc # "raised"

\* C26: sleep_until(t) never returns before the clock reaches base + max(0, t),
\* base being the instant of the last reset() (of the first sleep_until when
\* reset was never called), and every call returns.
C26_ReturnedOnTime ==
    \A i \in 1..Len(tl_calls) :
        tl_calls[i].returned_at # None =>
            Get(tl_calls[i].returned_at) >= tl_calls[i].base + Max(0, tl_calls[i].timestamp)

C26_SleepUntil == []C26_ReturnedOnTime /\ (tl_pc = "loop" ~> tl_pc = "idle")

\* a call 5 ms ahead returned after two sleeps, later than its target; a call
\* with a negative timestamp returned without sleeping
C26_Witness ==
    /\ Len(tl_calls) = 2 /\ tl_pc = "idle"
    /\ tl_calls[1].timestamp = 5000 /\ tl_calls[1].sleeps = 2
    /\ Get(tl_calls[1].returned_at) > tl_calls[1].base + 5000
    /\ tl_calls[2].timestamp = -1000 /\ tl_calls[2].sleeps = 0
    /\ tl_calls[2].returned_at # None

\* C27: after flush() returns both remainder buffers are zero, and flush
\* emits at most one step, which is not (0, 0).
C27_FlushZeroesBuffers ==
    ac_flushed # None =>
        /\ ac_acc.buffer_x = 0 /\ ac_acc.buffer_y = 0
        /\ Len(Get(ac_flushed)) <= 1
        /\ \A k \in 1..Len(Get(ac_flushed)) : Get(ac_flushed)[k] # <<0, 0>>

\* the steps one feed call emitted, and the buffers before its k-th step
AcNewSteps == SubSeq(ac_emitted', Len(ac_emitted) + 1, Len(ac_emitted'))
AcBufferXBefore(k) ==
    ac_acc.buffer_x + Last(ac_feeds')[1] - Scale * StepsSumX(SubSeq(AcNewSteps, 1, k - 1))
AcBufferYBefore(k) ==
    ac_acc.buffer_y + Last(ac_feeds')[2] - Scale * StepsSumY(SubSeq(AcNewSteps, 1, k - 1))

\* C28: every step a feed call emits has on each axis a magnitude of at most
\* max_step and, where not zero, the sign of that axis's buffer; no step is
\* (0, 0); and when feed returns both buffers are below 1 in magnitude.
C28_FeedSteps ==
    [][ac_feeds' # ac_feeds =>
          /\ \A k \in 1..Len(AcNewSteps) :
                /\ Abs(AcNewSteps[k][1]) <= ac_acc.max_step
                /\ Abs(AcNewSteps[k][2]) <= ac_acc.max_step
                /\ AcNewSteps[k][1] # 0 => AcNewSteps[k][1] * AcBufferXBefore(k) > 0
                /\ AcNewSteps[k][2] # 0 => AcNewSteps[k][2] * AcBufferYBefore(k) > 0
                /\ AcNewSteps[k] # <<0, 0>>
          /\ Abs(ac_acc'.buffer_x) < Scale
          /\ Abs(ac_acc'.buffer_y) < Scale]_vars

\* feed(-1.6, 2.5) with max_step 1 emitted (-1, 1) and (0, 1) and left -0.6 and 0.5
C28_Witness ==
    /\ ac_acc.max_step = 1
    /\ ac_feeds = <<<<-16, 25>>>>
    /\ ac_emitted = <<<<-1, 1>>, <<0, 1>>>>
    /\ ac_acc.buffer_x = -6 /\ ac_acc.buffer_y = 5

\* the series the trajectory of the segment was built with, and the instants
\* at which it is looked up
TrSeries == CameraTrajectory(tr_segment, DefaultCalibration).series
TrBuilt == tr_resampled # None \/ tr_compared # None
TrProbes == TrSampleTimes \cup TrReleases \cup {TrPress, 1500, 2500, 3200, 10000}

Between(v, a, b) == Min(a, b) <= v /\ v <= Max(a, b)

\* the series is non-decreasing in time, begins at start with (0, 0) and ends
\* at end with the total of all samples; lookups at or before start give
\* (0, 0), at or after end the total, and in between a value between the two
\* bracketing entries (the left entry's value at the left entry's time)
SeriesWellFormed(series, start, end, total) ==
    /\ \A i, j \in 1..Len(series.times) : i < j => series.times[i] <= series.times[j]
    /\ series.times[1] = start /\ series.cum_x[1] = 0 /\ series.cum_y[1] = 0
    /\ Last(series.times) = end
    /\ TotalVector(series) = total
    /\ \A t \in TrProbes :
          LET value == ValueAt(series, t)
          IN  /\ t <= start => value = <<0, 0>>
              /\ t >= end => value = total
              /\ (start < t /\ t < end) =>
                    \E i \in 1..(Len(series.times) - 1) :
                        /\ series.times[i] <= t /\ t < series.times[i + 1]
                        /\ Between(value[1], series.cum_x[i], series.cum_x[i + 1])
                        /\ Between(value[2], series.cum_y[i], series.cum_y[i + 1])
                        /\ t = series.times[i] => value = <<series.cum_x[i], series.cum_y[i]>>

\* C29 (as stated): for every start, end and sample list the series is well
\* formed in this sense.
C29_SeriesWellFormed_AnyInterval ==
    TrBuilt => SeriesWellFormed(TrSeries, tr_segment.press_timestamp, tr_segment.release_timestamp,
                                SumAngles(tr_segment))

\* C29 (amended): the same for start < end.
C29_SeriesWellFormed ==
    (TrBuilt /\ tr_segment.press_timestamp < tr_segment.release_timestamp) =>
        SeriesWellFormed(TrSeries, tr_segment.press_timestamp, tr_segment.release_timestamp,
                         SumAngles(tr_segment))

\* a series built from a sample after the release and a sample inside the
\* segment: the samples are sorted, the later one is clamped to the release,
\* and a lookup between the press and the first sample is interpolated
C29_Witness ==
    /\ TrBuilt
    /\ tr_segment.release_timestamp = 4000
    /\ Len(tr_segment.samples) = 2
    /\ tr_segment.samples[1].timestamp = 9500 /\ tr_segment.samples[2].timestamp = 2000
    /\ tr_segment.samples[1].angle_dx = 12 /\ tr_segment.samples[2].angle_dx = -5
    /\ TrSeries.times = <<1000, 2000, 4000>>
    /\ TrSeries.cum_x = <<0, -5, 7>>
    /\ ValueAt(TrSeries, 1500)[1] = -3

\* the tick timestamps resample returned, and the timeline a runner prepares
\* from the same segment at the same rate
TrTicks == SeqMap(LAMBDA sample : sample.timestamp, Get(tr_resampled))
TrTimeline ==
    PrepareActions(tr_segment, [DefaultSettings EXCEPT !.target_rate_hz = tr_rate],
                   DefaultCalibration).actions

\* C30: for a segment with samples and positive duration the ticks of
\* resample are strictly increasing and lie in (press, release]; the ticks
\* before the last are press + k/rate for k = 1, 2, ...; the last tick is the
\* release; and the action timestamps of a runner's timeline do not decrease.
\* (1/rate is the code's step, 1.0 / max(1.0, rate).)
C30_ResampleTicks ==
    (tr_resampled # None /\ tr_segment.samples # <<>>
        /\ tr_segment.release_timestamp > tr_segment.press_timestamp) =>
        /\ TrTicks # <<>>
        /\ \A i, j \in 1..Len(TrTicks) : i < j => TrTicks[i] < TrTicks[j]
        /\ \A i \in 1..Len(TrTicks) :
              /\ TrTicks[i] > tr_segment.press_timestamp
              /\ TrTicks[i] <= tr_segment.release_timestamp
        /\ \A i \in 1..(Len(TrTicks) - 1) :
              TrTicks[i] = tr_segment.press_timestamp + i * StepOf(tr_rate)
        /\ Last(TrTicks) = tr_segment.release_timestamp
        /\ \A i, j \in 1..Len(TrTimeline) : i < j => TrTimeline[i].timestamp <= TrTimeline[j].timestamp

\* a segment from 1000 to 3000 resampled at 1000 Hz: one tick at 2000 and the
\* release tick, the release being a whole number of steps after the press
C30_Witness ==
    /\ tr_resampled # None
    /\ tr_rate = 1000
    /\ tr_segment.release_timestamp = 3000
    /\ Len(tr_segment.samples) = 2
    /\ tr_segment.samples[1].timestamp = 2000 /\ tr_segment.samples[1].angle_dx = 12
    /\ tr_segment.samples[2].timestamp = 3500 /\ tr_segment.samples[2].angle_dx = 12
    /\ TrTicks = <<2000, 3000>>
    /\ Len(TrTimeline) >= 2

\* the history of the filter as a set, and the call a step made
MfHistory(filter) == {filter.history[i] : i \in 1..Len(filter.history)}
MfNewCall == Last(mf_calls')
MfCalled == mf_calls' # mf_calls

\* every entry of the history after a call was there before, or is the sample
\* of this call, which the call returned unchanged; and after a call that
\* changed the history no entry is older than reverse_window
MfHistoryOfAccepted ==
    /\ \A entry \in MfHistory(mf_filter') :
          \/ entry \in MfHistory(mf_filter)
          \/ /\ entry = <<MfNewCall.timestamp, MfNewCall.dx, MfNewCall.dy>>
             /\ MfNewCall.out = <<MfNewCall.dx, MfNewCall.dy>>
    /\ mf_filter'.history # mf_filter.history =>
          \A entry \in MfHistory(mf_filter') :
              MfNewCall.timestamp - entry[1] <= mf_filter.reverse_window

\* C31 (as stated): the history holds only samples that apply accepted and
\* returned unchanged, a call that returns (0, 0) leaves the history
\* unchanged, and after an accepting call no entry is older than
\* reverse_window relative to that call's timestamp.
C31_History_AnyZeroResult ==
    [][MfCalled =>
          /\ MfHistoryOfAccepted
          /\ MfNewCall.out = <<0, 0>> => mf_filter'.history = mf_filter.history]_vars

\* C31 (amended): the same, where the call that leaves the history unchanged
\* is one that returns (0, 0) for a non-zero sample.
C31_History ==
    [][MfCalled =>
          /\ MfHistoryOfAccepted
          /\ (MfNewCall.out = <<0, 0>> /\ <<MfNewCall.dx, MfNewCall.dy>> # <<0, 0>>)
                => mf_filter'.history = mf_filter.history]_vars

\* a sample was accepted, and a sample accepted 50 ms later pushed it out of
\* the 30 ms window
C31_Witness ==
    /\ Len(mf_calls) = 2
    /\ mf_calls[1].out = <<5, 0>>
    /\ mf_calls[2].timestamp = mf_calls[1].timestamp + 50000
    /\ mf_calls[2].out = <<6, 0>>
    /\ mf_filter.history = <<<<mf_calls[2].timestamp, 6, 0>>>>

\* ------------------------------------------------------------------------
\* Claims about the threads of RecordingSession
\* ------------------------------------------------------------------------
RcArrived == {rc_arrived[i] : i \in 1..Len(rc_arrived)}
RcSampleTimes(segment) == {segment.samples[i].timestamp : i \in 1..Len(segment.samples)}

\* C32: every non-zero raw packet that arrives while the right button is held
\* is, once that hold has ended, a sample of the segment closed for it, and of
\* no other segment.
C32_HeldPacketsInSegment ==
    \A packet \in RcArrived :
        /\ \/ /\ rc_running /\ rc_state # None
              /\ Get(rc_state).press_timestamp = packet.press_timestamp
           \/ \E k \in 1..Len(RcClosed) :
                 /\ RcClosed[k].press_timestamp = packet.press_timestamp
                 /\ packet.timestamp \in RcSampleTimes(RcClosed[k])
        /\ \A k \in 1..Len(RcClosed) :
              packet.timestamp \in RcSampleTimes(RcClosed[k])
                 => RcClosed[k].press_timestamp = packet.press_timestamp

\* C36: the consumer thread never reads the samples of a cleared segment
\* state: _append_camera_delta does not raise in it.
C36_ConsumerNeverRaises ==
    rc_consumer.pc # "dead"

\* C37: the event list is in non-decreasing timestamp order, and the index
\* _append_event returned to a right-button press, kept as the open segment's
\* press_event_index, is the index of the press event that call appended.
C37_EventsOrderedAndIndexed ==
    /\ \A i, j \in 1..Len(RcLogged) :
          i < j => RcLogged[i].timestamp <= RcLogged[j].timestamp
    /\ (rc_running /\ rc_state # None) =>
          IsEventIndex(rc_events, Get(rc_state).press_event_index, "mouse_press")

C35_StepsSentOnceInOrder ==
    /\ \A i, j \in 1..Len(dr_sent) :
          i < j => \/ dr_sent[i].action < dr_sent[j].action
                   \/ dr_sent[i].action = dr_sent[j].action /\ dr_sent[i].step < dr_sent[j].step
    /\ \A k \in 1..Len(dr_returns) :
          (dr_returns[k].kind = "finalize" /\ dr_returns[k].completed_before)
             => dr_returns[k].sent = 0 /\ dr_returns[k].result = None

\* whether the filter returns (0, 0) for a resampled tick that is not (0, 0)
RECURSIVE TickSuppressed(_, _)
TickSuppressed(resampled, filter) ==
    IF resampled = <<>> THEN FALSE
    ELSE LET sample   == Head(resampled)
             filtered == FilterApply(filter, sample.angle_dx, sample.angle_dy, sample.timestamp)
         IN  \/ filtered.out = <<0, 0>> /\ <<sample.angle_dx, sample.angle_dy>> # <<0, 0>>
             \/ TickSuppressed(Tail(resampled), filtered.filter)

DrSuppressed ==
    LET runner == Get(dr_runner)
    IN  TickSuppressed(Resample(CameraTrajectory(runner.segment, runner.calibration),
                                runner.settings.target_rate_hz),
                       MotionFilter(runner.settings, runner.calibration))

\* per axis: the sum of the steps of the timeline, and the count equivalent of
\* the recorded rotation with gain and inversion applied (both fixed-point)
DrTimelineSum ==
    LET actions == Get(dr_runner).actions
    IN  <<SumSeq([i \in 1..Len(actions) |-> StepsSumX(actions[i].steps)]) * Scale,
          SumSeq([i \in 1..Len(actions) |-> StepsSumY(actions[i].steps)]) * Scale>>
DrRecordedCounts ==
    LET runner == Get(dr_runner)
        total  == SumAngles(runner.segment)
        st     == runner.settings
    IN  <<total[1] * st.camera_gain * st.gain_x * (IF st.invert_x THEN -1 ELSE 1)
             * runner.calibration.counts_per_degree_x,
          total[2] * st.camera_gain * st.gain_y * (IF st.invert_y THEN -1 ELSE 1)
             * runner.calibration.counts_per_degree_y>>
DrWithinOneCount ==
    /\ Abs(DrTimelineSum[1] - DrRecordedCounts[1]) < Scale
    /\ Abs(DrTimelineSum[2] - DrRecordedCounts[2]) < Scale

\* C34 (as stated): for any segment of which the filter suppresses no
\* resampled tick, the per-axis sum of the steps of the timeline, flush action
\* included, differs by less than one count from the gain-scaled count
\* equivalent of the recorded rotation.
C34_TimelineKeepsRotation_AnySegment ==
    (dr_runner # None /\ ~DrSuppressed) => DrWithinOneCount

\* C34 (amended): the same, for segments of positive duration.
C34_TimelineKeepsRotation ==
    (/\ dr_runner # None /\ ~DrSuppressed
     /\ Get(dr_runner).segment.release_timestamp > Get(dr_runner).segment.press_timestamp)
        => DrWithinOneCount

\* two samples of 0.3 degrees at 3 counts per degree, gain 2, inverted: 3.6
\* counts, sent as a step of -3 and a flush step of -1
C34_Witness ==
    /\ dr_runner # None /\ ~DrSuppressed
    /\ Get(dr_runner).segment.release_timestamp = 4000
    /\ DrRecordedCounts[1] = -36
    /\ DrTimelineSum[1] = -40
    /\ Len(Get(dr_runner).actions) >= 2
    /\ Last(Get(dr_runner).actions).timestamp = 4000
    /\ Last(Get(dr_runner).actions).steps = <<<<-1, 0>>>>

\* ------------------------------------------------------------------------
\* Claims about SettingsRepository
\* ------------------------------------------------------------------------
\* C38: after load and after every update_settings, upsert_calibration and
\* set_active_calibration call the calibration map is non-empty and
\* active_calibration is one of its keys; a set_active_calibration call with
\* an unknown name raises KeyError and leaves the bundle unchanged.
C38_ActiveIsKey ==
    /\ rp_bundle # None =>
          /\ DOMAIN Get(rp_bundle).calibrations # {}
          /\ Get(rp_bundle).active_calibration \in DOMAIN Get(rp_bundle).calibrations
    /\ (/\ rp_last_call # None /\ Get(rp_last_call).op = "set_active_calibration"
        /\ ~Get(rp_last_call).known)
          => Get(rp_last_call).raised = "KeyError" /\ ~Get(rp_last_call).changed

\* a file naming an active profile "b" it does not hold was loaded; an upsert
\* added "c" without making it active; set_active_calibration("default") raised
C38_Witness ==
    /\ rp_pc = "ready" /\ rp_file # None
    /\ Get(rp_file).active_calibration = Some("b")
    /\ DOMAIN Get(rp_bundle).calibrations = {"a", "c"}
    /\ Get(rp_bundle).active_calibration = "a"
    /\ rp_last_call # None
    /\ Get(rp_last_call).name = "default" /\ Get(rp_last_call).raised = "KeyError"

\* ------------------------------------------------------------------------
\* Claims about MacroEngineController
\* ------------------------------------------------------------------------
CtRunning(kind) ==
    \E w \in 1..Len(ct_workers) : ct_workers[w].kind = kind /\ ct_workers[w].pc # "done"

\* C39: a recording session and a playback worker are never active at the
\* same time: mode is idle only when no stop_recording worker and no playback
\* worker is still running, and start_recording and play_macro take effect
\* only in mode idle.
C39_RecordingExcludesPlayback ==
    /\ ~(CtRunning("play") /\ \E i \in 1..Len(ct_sessions) : ct_sessions[i].running)
    /\ ct_mode = "idle" => ~CtRunning("stop") /\ ~CtRunning("play")
    /\ \A i \in 1..Len(ct_sessions) : ct_sessions[i].mode_at_start = "idle"
    /\ \A w \in 1..Len(ct_workers) :
          ct_workers[w].kind = "play" => ct_workers[w].mode_at_accept = "idle"

\* C40: every accepted stop_recording call and every accepted play_macro call
\* is eventually followed by mode = idle.
C40_AcceptedLeadsToIdle ==
    (\E w \in 1..MaxWorkers : w <= Len(ct_workers) /\ ct_workers[w].pc = "spawned")
        ~> (ct_mode = "idle")

=============================================================================
